---- MODULE Spec2Model ----
(***************************************************************************)
(* Verification model of the SFT analysis pipeline (src-tauri/src):        *)
(*   - ProjectParser::parse_project, the sequential orchestration loop     *)
(*     (parsers/traits.rs) over ParseResult (models/parse_result.rs);      *)
(*   - ProjectDetector::detect and its scorers (core/detection.rs), with   *)
(*     the f32 arithmetic of the scores;                                   *)
(*   - the scan_directory command (commands/mod.rs) and the directory walk *)
(*     (parsers/common/file_utils.rs);                                     *)
(*   - generate_nodes of DelphiParser and LaravelParser.                   *)
(* Three specifications share the variables: Spec (parse_project),         *)
(* DetectSpec (detect / scan over a project tree) and GraphSpec (building  *)
(* a ParseResult and generating nodes).                                    *)
(***************************************************************************)
EXTENDS Integers, Sequences, FiniteSets, TLC

VARIABLES
    parser,      \* which ProjectParser implementation is in use
    files,       \* parse_project: the `files` argument
    unreadable,  \* the absolute paths fs::read_to_string fails on
    progress,    \* parse_project: TRUE iff a progress callback was supplied
    index,       \* parse_project: the enumerate() index of the loop
    pc,          \* parse_project: position in the body of the loop
    result,      \* the ParseResult being built
    returned,    \* parse_project: the value returned, once it has returned
    trace,       \* observed calls: progress callbacks and parse_file attempts
    tree,        \* the project directory detect and scan look at
    reply,       \* the reply of the last command run on the current tree
    parsed,      \* the ParsedFile an extractor is filling in
    nodes,       \* the nodes of the last build_graph call
    edges,       \* the edges of the last build_graph call
    tasks,       \* the invocations running side by side, each with its locals
    registry,    \* PARSER_REGISTRY, the one value all invocations share
    source_text  \* the text of the file an extractor has read

vars == <<parser, files, unreadable, progress, index, pc, result, returned,
          trace, tree, reply, parsed, nodes, edges, tasks, registry, source_text>>

parseVars == <<files, unreadable, progress, index, pc, returned, trace>>
treeVars == <<tree, reply>>
graphVars == <<parsed, nodes, edges>>
taskVars == <<tasks, registry>>

None == [none |-> TRUE]
Some(v) == [some |-> v]

(***************************************************************************)
(* Bounds of the model.                                                    *)
(***************************************************************************)
MaxFiles == 3
MaxEntries == 5
MaxSymbols == 2
MaxParsedFiles == 2
MaxClasses == 2
MaxTaskFiles == 2
MaxPieces == 4

(***************************************************************************)
(* Strings.  Rust's str operations, computed character by character.       *)
(***************************************************************************)
UpperChars == "ABCDEFGHIJKLMNOPQRSTUVWXYZ"
LowerChars == "abcdefghijklmnopqrstuvwxyz"

CharAt(s, i) == SubSeq(s, i, i)

to_ascii_lowercase_char(c) ==
    IF \E i \in 1..26 : CharAt(UpperChars, i) = c
    THEN CharAt(LowerChars, CHOOSE i \in 1..26 : CharAt(UpperChars, i) = c)
    ELSE c

RECURSIVE to_lowercase(_)
to_lowercase(s) ==
    IF Len(s) = 0 THEN ""
    ELSE to_ascii_lowercase_char(CharAt(s, 1)) \o to_lowercase(SubSeq(s, 2, Len(s)))

eq_ignore_ascii_case(a, b) == to_lowercase(a) = to_lowercase(b)

\* The greatest position of character c in s, 0 when there is none.
RECURSIVE rfind(_, _)
rfind(s, c) ==
    IF Len(s) = 0 THEN 0
    ELSE IF CharAt(s, Len(s)) = c THEN Len(s)
    ELSE rfind(SubSeq(s, 1, Len(s) - 1), c)

\* Path::file_name of a relative path with '/' separators.
file_name(path) == SubSeq(path, rfind(path, "/") + 1, Len(path))

\* Path::extension of a file name: the part after the last dot; there is
\* none when the name has no dot or only a leading one.
HasExtension(name) == rfind(name, ".") > 1
extension(name) ==
    IF HasExtension(name) THEN SubSeq(name, rfind(name, ".") + 1, Len(name)) ELSE ""

\* Path::file_stem of a file name.
file_stem(name) ==
    IF HasExtension(name) THEN SubSeq(name, 1, rfind(name, ".") - 1) ELSE name

\* The directory names on the way to a relative path, outermost first.
RECURSIVE dir_components(_)
dir_components(path) ==
    IF rfind(path, "/") = 0 THEN <<>>
    ELSE LET parent == SubSeq(path, 1, rfind(path, "/") - 1)
         IN  Append(dir_components(parent), file_name(parent))

SeqToSet(s) == {s[i] : i \in 1..Len(s)}

\* str::contains
contains(s, sub) ==
    \E i \in 1..(Len(s) - Len(sub) + 1) : SubSeq(s, i, i + Len(sub) - 1) = sub

\* str::ends_with
ends_with(s, suffix) ==
    /\ Len(suffix) <= Len(s)
    /\ SubSeq(s, Len(s) - Len(suffix) + 1, Len(s)) = suffix

\* s.rsplit('\\').next(): what follows the last backslash, s when there is none.
rsplit_backslash(s) == SubSeq(s, rfind(s, "\\") + 1, Len(s))

\* path.replace('\\', "/")
RECURSIVE replace_backslash(_)
replace_backslash(s) ==
    IF Len(s) = 0 THEN ""
    ELSE (IF CharAt(s, 1) = "\\" THEN "/" ELSE CharAt(s, 1))
            \o replace_backslash(SubSeq(s, 2, Len(s)))

(***************************************************************************)
(* Identity hasher (parsers/common/hash.rs).  MD5 is taken to be free of   *)
(* collisions: the digest is an injective tag of the hashed string.        *)
(***************************************************************************)
md5_hash(content) == <<"md5", content>>

generate_id(path) == md5_hash(path)

(***************************************************************************)
(* SourceFile (models/source_file.rs).                                     *)
(***************************************************************************)
SourceFile_new(name, path, absolute_path) ==
    [name |-> name, path |-> path, absolute_path |-> absolute_path,
     extension |-> extension(name), size_bytes |-> 0]

SourceFile_with_size(f, size) == [f EXCEPT !.size_bytes = size]

RootDir == "/proj/"

\* create_source_file for a path below the root.
create_source_file(rel, size) ==
    SourceFile_with_size(SourceFile_new(file_name(rel), rel, RootDir \o rel), size)

(***************************************************************************)
(* ParsedFile and ParseResult (models/parse_result.rs).                    *)
(***************************************************************************)
\* A HashMap with no entry.
EmptyMap == [k \in {} |-> ""]

ParsedFile_new(source) ==
    [source |-> source, symbols |-> <<>>, dependencies |-> <<>>, metadata |-> EmptyMap]

add_symbol(pf, symbol) == [pf EXCEPT !.symbols = Append(@, symbol)]

Dependency(target) == [target |-> target, alias |-> None]

add_dependency(pf, dep) == [pf EXCEPT !.dependencies = Append(@, dep)]

ParseResult_new ==
    [files |-> <<>>, errors |-> <<>>, total_processed |-> 0, total_errors |-> 0]

\* HashMap::insert on a map kept as a sequence of <<key, value>> without
\* duplicate keys: an existing key keeps its place and gets the new value.
HashMap_insert(m, k, v) ==
    IF \E i \in 1..Len(m) : m[i][1] = k
    THEN [i \in 1..Len(m) |-> IF m[i][1] = k THEN <<k, v>> ELSE m[i]]
    ELSE Append(m, <<k, v>>)

HashMap_keys(m) == {m[i][1] : i \in 1..Len(m)}

add_parsed_file_missing_count(r, file) ==
    [r EXCEPT !.files = Append(@, file)]

add_parsed_file(r, file) ==
    [r EXCEPT !.total_processed = @ + 1, !.files = Append(@, file)]

\* An add_error that records the message without counting the failure.
add_error_uncounted(r, path, error) ==
    [r EXCEPT !.total_processed = @ + 1,
              !.errors = HashMap_insert(@, path, error)]

add_error(r, path, error) ==
    [r EXCEPT !.total_processed = @ + 1,
              !.total_errors = @ + 1,
              !.errors = HashMap_insert(@, path, error)]

(***************************************************************************)
(* serde_json::Value, as far as the parsers build and read it.             *)
(***************************************************************************)
JsonString(s) == [kind |-> "string", str |-> s]
JsonNull == [kind |-> "null"]
JsonNumber(n) == [kind |-> "number", num |-> n]
JsonArray(items) == [kind |-> "array", items |-> items]
JsonObject(fields) == [kind |-> "object", fields |-> fields]

(***************************************************************************)
(* LaravelParser: file classification (parsers/laravel/parser.rs).         *)
(***************************************************************************)
determine_file_type(file) ==
    LET name == file.name
        path_lower == to_lowercase(replace_backslash(file.path))
        has(sub) == contains(path_lower, sub)
    IN  IF /\ has("/resources/js/pages/") \/ has("/resources/js/Pages/")
           /\ \/ ends_with(name, ".vue") \/ ends_with(name, ".jsx")
              \/ ends_with(name, ".tsx") \/ ends_with(name, ".svelte")
        THEN "InertiaPage"
        ELSE IF ends_with(name, ".blade.php") THEN "BladeView"
        ELSE IF has("/routes/") /\ ends_with(name, ".php") THEN "Route"
        ELSE IF has("/migrations/") \/ has("/database/migrations") THEN "Migration"
        ELSE IF has("/controllers/") \/ ends_with(name, "Controller.php") THEN "Controller"
        ELSE IF has("/middleware/") THEN "Middleware"
        ELSE IF has("/requests/") THEN "Request"
        ELSE IF has("/resources/") /\ ~has("/views/") /\ ~has("resources/views")
             THEN "Resource"
        ELSE IF has("/providers/") THEN "Provider"
        ELSE IF has("/events/") THEN "Event"
        ELSE IF has("/listeners/") THEN "Listener"
        ELSE IF has("/jobs/") THEN "Job"
        ELSE IF has("/policies/") THEN "Policy"
        ELSE IF has("/commands/") THEN "Command"
        ELSE IF has("/console/") /\ ~has("/console.php") THEN "Command"
        ELSE IF has("/config/") THEN "Config"
        ELSE IF has("/seeders/") \/ has("/database/seeders") THEN "Seeder"
        ELSE IF has("/factories/") \/ has("/database/factories") THEN "Factory"
        ELSE IF has("/tests/") THEN "Test"
        ELSE IF has("/services/") THEN "Service"
        ELSE IF has("/repositories/") THEN "Repository"
        ELSE IF has("/actions/") THEN "Action"
        ELSE IF has("/dto/") \/ has("/dtos/") THEN "Dto"
        ELSE IF has("/notifications/") THEN "Notification"
        ELSE IF has("/mail/") THEN "Mailable"
        ELSE IF has("/observers/") THEN "Observer"
        ELSE IF has("/scopes/") THEN "Scope"
        ELSE IF has("/rules/") THEN "Rule"
        ELSE IF has("/casts/") THEN "Cast"
        ELSE IF has("/contracts/") \/ has("/interfaces/") THEN "Contract"
        ELSE IF has("/exceptions/") THEN "Exception"
        ELSE IF has("/enums/") THEN "Enum"
        ELSE IF has("/traits/") \/ has("/concerns/") THEN "Trait"
        ELSE IF has("/models/") THEN "Model"
        ELSE "Php"

\* The relative paths of the Laravel files of the model, and
\* determine_file_type of each, computed once.
LaravelPaths ==
    {"app/Http/Controllers/UserController.php", "app/Support/Helper.php",
     "app/Models/User.php", "app/Models/UserService.php",
     "app/Services/OrderService.php", "app/Services/PaymentController.php",
     "app/Http/Middleware/Authenticate.php", "app/Billing/Invoice.php",
     "app/Console/Commands/Sync.php", "database/migrations/2024_create_users.php",
     "resources/views/home.blade.php", "routes/web.php", "routes/api.php",
     "app/routes/web.php", "config/app.php", "resources/js/Pages/Home.vue",
     "app/Domain/Post.php", "app/Admin/Dashboard.php"}

FileTypeOfPath ==
    [path \in LaravelPaths |->
        determine_file_type(SourceFile_new(file_name(path), path, RootDir \o path))]

(***************************************************************************)
(* LaravelParser: refinement of the file type (parsers/laravel/parser.rs). *)
(***************************************************************************)
NoMatch == "NoMatch"

\* The `match parent` table on the last segment of `extends`.
extends_table(parent) ==
    CASE parent \in {"Controller", "BaseController", "ResourceController"} -> "Controller"
      [] parent \in {"Model", "Authenticatable", "Pivot"} -> "Model"
      [] parent \in {"FormRequest", "Request"} -> "Request"
      [] parent \in {"JsonResource", "Resource", "ResourceCollection"} -> "Resource"
      [] parent \in {"ServiceProvider", "AppServiceProvider", "RouteServiceProvider"}
            -> "Provider"
      [] parent = "Event" -> "Event"
      [] parent = "Job" -> "Job"
      [] parent \in {"Command", "ConsoleCommand"} -> "Command"
      [] parent = "Notification" -> "Notification"
      [] parent = "Mailable" -> "Mailable"
      [] parent = "Migration" -> "Migration"
      [] parent = "Seeder" -> "Seeder"
      [] parent = "Factory" -> "Factory"
      [] parent \in {"Exception", "HttpException", "ValidationException"} -> "Exception"
      [] parent = "Policy" -> "Policy"
      [] parent = "Middleware" -> "Middleware"
      [] parent = "CastsAttributes" -> "Cast"
      [] OTHER -> NoMatch

\* The `match iface_name` table for one implemented interface of a symbol.
implements_table(symbol, iface_name) ==
    CASE iface_name = "ShouldQueue" ->
            (IF symbol.extends = None THEN "Job" ELSE NoMatch)
      [] iface_name \in {"ShouldHandleEventsAfterCommit", "Listener"} -> "Listener"
      [] iface_name \in {"Rule", "ValidationRule", "DataAwareRule", "ValidatorAwareRule"}
            -> "Rule"
      [] iface_name \in {"CastsAttributes", "CastsInboundAttributes"} -> "Cast"
      [] iface_name \in {"MiddlewareInterface", "Middleware"} -> "Middleware"
      [] OTHER -> NoMatch

\* The first interface of implements[i..] the table has an answer for.
RECURSIVE implements_match(_, _, _)
implements_match(symbol, implements, i) ==
    IF i > Len(implements) THEN NoMatch
    ELSE LET m == implements_table(symbol, rsplit_backslash(implements[i]))
         IN  IF m # NoMatch THEN m ELSE implements_match(symbol, implements, i + 1)

\* The chain of class-name suffix checks.
suffix_table(class_name) ==
    IF ends_with(class_name, "Service") THEN "Service"
    ELSE IF ends_with(class_name, "Repository") THEN "Repository"
    ELSE IF ends_with(class_name, "Action") THEN "Action"
    ELSE IF ends_with(class_name, "DTO") \/ ends_with(class_name, "Dto") THEN "Dto"
    ELSE IF ends_with(class_name, "Observer") THEN "Observer"
    ELSE IF ends_with(class_name, "Scope") THEN "Scope"
    ELSE IF ends_with(class_name, "Policy") THEN "Policy"
    ELSE IF ends_with(class_name, "Listener") THEN "Listener"
    ELSE IF ends_with(class_name, "Event") THEN "Event"
    ELSE IF ends_with(class_name, "Job") THEN "Job"
    ELSE IF ends_with(class_name, "Controller") THEN "Controller"
    ELSE IF ends_with(class_name, "Request") THEN "Request"
    ELSE IF ends_with(class_name, "Resource") THEN "Resource"
    ELSE IF ends_with(class_name, "Notification") THEN "Notification"
    ELSE IF ends_with(class_name, "Mail") \/ ends_with(class_name, "Mailable")
         THEN "Mailable"
    ELSE IF ends_with(class_name, "Exception") THEN "Exception"
    ELSE IF ends_with(class_name, "Middleware") THEN "Middleware"
    ELSE IF ends_with(class_name, "Cast") THEN "Cast"
    ELSE IF ends_with(class_name, "Rule") THEN "Rule"
    ELSE IF ends_with(class_name, "Provider") THEN "Provider"
    ELSE IF ends_with(class_name, "Seeder") THEN "Seeder"
    ELSE IF ends_with(class_name, "Factory") THEN "Factory"
    ELSE IF ends_with(class_name, "Command") THEN "Command"
    ELSE NoMatch

\* One pass of the loop body over a class symbol: extends, then implements,
\* then the suffix of the class name.
refine_by_class(symbol) ==
    LET by_extends ==
            IF symbol.extends = None THEN NoMatch
            ELSE extends_table(rsplit_backslash(symbol.extends.some))
        by_implements ==
            IF symbol.implements = None THEN NoMatch
            ELSE implements_match(symbol, symbol.implements.some, 1)
    IN  IF by_extends # NoMatch THEN by_extends
        ELSE IF by_implements # NoMatch THEN by_implements
        ELSE suffix_table(symbol.name)

\* The first class of symbols[i..] whose pass returns a type.
RECURSIVE refine_by_classes(_, _)
refine_by_classes(symbols, i) ==
    IF i > Len(symbols) THEN NoMatch
    ELSE IF symbols[i].symbol_type # "Class" THEN refine_by_classes(symbols, i + 1)
    ELSE LET m == refine_by_class(symbols[i])
         IN  IF m # NoMatch THEN m ELSE refine_by_classes(symbols, i + 1)

refine_file_type(initial_type, parsed_file) ==
    IF initial_type # "Php" THEN initial_type
    ELSE LET by_class == refine_by_classes(parsed_file.symbols, 1)
             kinds == {parsed_file.symbols[i].symbol_type :
                         i \in 1..Len(parsed_file.symbols)}
         IN  IF by_class # NoMatch THEN by_class
             ELSE IF "Interface" \in kinds THEN "Interface"
             ELSE IF "Trait" \in kinds THEN "Trait"
             ELSE initial_type

(***************************************************************************)
(* parse_file (parsers/delphi/parser.rs, parsers/laravel/parser.rs).       *)
(* What an extractor's pattern searches find in a file's text is given by  *)
(* Extracted; the only failure is that of fs::read_to_string.              *)
(***************************************************************************)
Symbol(name, symbol_type) ==
    [name |-> name, qualified_name |-> name, symbol_type |-> symbol_type,
     extends |-> None, implements |-> None]

SymbolTypes == {"Class", "Interface", "Trait", "Enum", "Function", "Method",
                "Variable", "Constant", "Property", "Record", "Unit"}

Extracted(path) ==
    CASE path = "Main.pas" -> <<Symbol("Main", "Unit"), Symbol("TMain", "Class"),
                                Symbol("TMain.Run", "Method")>>
      [] path = "lib/Util.pas" -> <<Symbol("Util", "Unit"), Symbol("Trim", "Function")>>
      [] path = "Main.dfm" -> <<Symbol("MainForm", "Property")>>
      [] path = "app/Models/User.php" -> <<Symbol("User", "Class")>>
      [] path = "app/Domain/Post.php"
            -> <<[Symbol("Post", "Class") EXCEPT !.qualified_name = "App\\Domain\\Post",
                                                !.extends = Some("Model")]>>
      [] path = "app/Admin/Dashboard.php"
            -> <<[Symbol("Dashboard", "Class") EXCEPT !.extends = Some("Controller")]>>
      [] OTHER -> <<>>

\* What the patterns of the PHP extractors match in a file's text: the
\* namespace, the use statements, the relationship calls in public methods
\* ($this->hasMany(Post::class)), the names in view('..') calls and those in
\* Inertia::render('..') calls.
PhpSource(namespace, use_statements, relations, views, inertia_pages) ==
    [namespace |-> namespace, use_statements |-> use_statements,
     relations |-> relations, views |-> views, inertia_pages |-> inertia_pages]

Relation(method, type, related_model) ==
    [method |-> method, type |-> type, related_model |-> related_model]

SourceOf(path) ==
    CASE path = "app/Models/User.php"
            -> PhpSource(None, <<>>, <<Relation("posts", "hasMany", "Post")>>, <<>>, <<>>)
      [] path = "app/Domain/Post.php"
            -> PhpSource(Some("App\\Domain"), <<"App\\Models\\User">>,
                         <<Relation("author", "belongsTo", "User")>>, <<>>, <<>>)
      [] path = "app/Http/Controllers/UserController.php"
            -> PhpSource(None, <<>>, <<>>, <<"home">>, <<>>)
      [] path = "app/Admin/Dashboard.php"
            -> PhpSource(None, <<>>, <<>>, <<"home">>, <<"Dashboard">>)
      [] OTHER -> PhpSource(None, <<>>, <<>>, <<>>, <<>>)

Ok(v) == [ok |-> TRUE, value |-> v]
Err(e) == [ok |-> FALSE, error |-> e]

\* ParseError::Io rendered by to_string().
IoErrorText == "IO error: os error"

\* The metadata entry of the namespace, when the text declares one.
namespace_metadata(source) ==
    IF source.namespace = None THEN EmptyMap
    ELSE [namespace |-> JsonString(source.namespace.some)]

\* The common body of every extractor's parse(): read the file, then mine
\* it for the namespace, the use statements and the symbols.
extractor_parse(file, unread) ==
    IF file.absolute_path \in unread
    THEN Err(IoErrorText)
    ELSE Ok([ParsedFile_new(file) EXCEPT
                !.symbols = Extracted(file.path),
                !.dependencies = [i \in 1..Len(SourceOf(file.path).use_statements) |->
                                     Dependency(SourceOf(file.path).use_statements[i])],
                !.metadata = namespace_metadata(SourceOf(file.path))])

\* parsed.metadata.insert for each entry of extra, on an Ok result.
insert_metadata(r, extra) ==
    IF r.ok THEN Ok([r.value EXCEPT !.metadata = extra @@ @]) ELSE r

\* An entry with the JSON array of the strings, none when there are none.
string_list_entry(key, strings) ==
    IF strings = <<>> THEN EmptyMap
    ELSE [k \in {key} |-> JsonArray([i \in 1..Len(strings) |-> JsonString(strings[i])])]

\* ModelParser::parse: of the keys it inserts, relationships is the one the
\* graph is built from.
ModelParser_parse(file, unread) ==
    insert_metadata(extractor_parse(file, unread),
        IF SourceOf(file.path).relations = <<>> THEN EmptyMap
        ELSE [relationships |->
                JsonArray([i \in 1..Len(SourceOf(file.path).relations) |->
                    JsonObject([method |-> JsonString(SourceOf(file.path).relations[i].method),
                                type |-> JsonString(SourceOf(file.path).relations[i].type),
                                related_model |->
                                    JsonString(SourceOf(file.path).relations[i].related_model)])])])

\* ControllerParser::parse: views_referenced and inertia_pages.
ControllerParser_parse(file, unread) ==
    insert_metadata(extractor_parse(file, unread),
        string_list_entry("views_referenced", SourceOf(file.path).views)
            @@ string_list_entry("inertia_pages", SourceOf(file.path).inertia_pages))

\* s.replace(from, to)
RECURSIVE str_replace(_, _, _)
str_replace(s, from, to) ==
    IF Len(s) < Len(from) \/ Len(from) = 0 THEN s
    ELSE IF SubSeq(s, 1, Len(from)) = from
    THEN to \o str_replace(SubSeq(s, Len(from) + 1, Len(s)), from, to)
    ELSE CharAt(s, 1) \o str_replace(SubSeq(s, 2, Len(s)), from, to)

\* BladeParser::extract_view_name
extract_view_name(path) ==
    str_replace(str_replace(str_replace(path, "resources/views/", ""), ".blade.php", ""),
                "/", ".")

\* BladeParser::parse: view_name.
BladeParser_parse(file, unread) ==
    insert_metadata(extractor_parse(file, unread),
                    [view_name |-> JsonString(extract_view_name(file.path))])

\* The Display text of ParseError::UnsupportedFile.
UnsupportedFileText(kind) == "Unsupported file type: " \o kind

\* A parse_file that rejects the extensions it has no extractor for.
DelphiParser_parse_file_unsupported(file, unread) ==
    IF to_lowercase(file.extension) \in {"pas", "dpr", "dpk", "dfm", "fmx"}
    THEN extractor_parse(file, unread)
    ELSE Err(UnsupportedFileText(file.extension))

DelphiParser_parse_file(file, unread) ==
    IF to_lowercase(file.extension) \in {"pas", "dpr", "dpk", "dfm", "fmx"}
    THEN extractor_parse(file, unread)
    ELSE Ok(ParsedFile_new(file))

\* The text of a route file, as the statements the route patterns match:
\* the verb and URI of Route::verb('uri', ...), the action that follows
\* ([Controller::class, 'method'], 'Controller@method', a closure or none
\* of them), and the ->name(..) and ->middleware(..) arguments up to the
\* semicolon.
RouteStatement(verb, uri, action, name, middleware) ==
    [verb |-> verb, uri |-> uri, action |-> action, name |-> name,
     middleware |-> middleware]

ClassAction(controller, method) ==
    [syntax |-> "class", controller |-> controller, method |-> method]

StringAction(controller, method) ==
    [syntax |-> "string", controller |-> controller, method |-> method]

ClosureAction == [syntax |-> "closure"]

\* Route::get('/users', [UserController::class, 'index'])->name('users.index');
UsersIndexRoute ==
    RouteStatement("get", "/users", ClassAction("UserController", "index"),
                   Some("users.index"), <<>>)

Text(path) ==
    CASE path \in {"routes/web.php", "app/routes/web.php"} -> <<UsersIndexRoute>>
      [] path = "routes/api.php" ->
            <<RouteStatement("post", "/orders", StringAction("OrderController", "store"),
                             None, <<"auth", "auth", "throttle">>),
              RouteStatement("any", "/ping", ClosureAction, None, <<>>)>>
      [] OTHER -> <<>>

RECURSIVE to_uppercase(_)
to_uppercase(s) ==
    IF Len(s) = 0 THEN ""
    ELSE (IF \E i \in 1..26 : CharAt(LowerChars, i) = CharAt(s, 1)
          THEN CharAt(UpperChars, CHOOSE i \in 1..26 : CharAt(LowerChars, i) = CharAt(s, 1))
          ELSE CharAt(s, 1))
         \o to_uppercase(SubSeq(s, 2, Len(s)))

\* RouteParser::extract_route_action
extract_route_action(statement) ==
    IF statement.action.syntax \in {"class", "string"}
    THEN JsonObject([type |-> JsonString("Controller"),
                     controller |-> JsonString(statement.action.controller),
                     method |-> JsonString(statement.action.method)])
    ELSE IF statement.action.syntax = "closure"
    THEN JsonObject([type |-> JsonString("Closure")])
    ELSE JsonObject([type |-> JsonString("Unknown")])

\* RouteParser::extract_middleware: the names in order, each once.
RECURSIVE extract_middleware(_)
extract_middleware(names) ==
    IF names = <<>> THEN <<>>
    ELSE LET front == extract_middleware(SubSeq(names, 1, Len(names) - 1))
             last == names[Len(names)]
         IN  IF \E k \in 1..Len(front) : front[k] = last THEN front
             ELSE Append(front, last)

route_fact(statement) ==
    JsonObject([method |-> JsonString(to_uppercase(statement.verb)),
                uri |-> JsonString(statement.uri),
                action |-> extract_route_action(statement),
                name |-> IF statement.name = None THEN JsonNull
                         ELSE JsonString(statement.name.some),
                middleware |-> JsonArray([k \in 1..Len(extract_middleware(statement.middleware))
                                            |-> JsonString(extract_middleware(statement.middleware)[k])])])

\* RouteParser::extract_routes over the Route::verb statements of the text.
extract_routes(text) == [k \in 1..Len(text) |-> route_fact(text[k])]

detect_route_type(filename) ==
    CASE filename = "web.php" -> "web"
      [] filename = "api.php" -> "api"
      [] filename = "channels.php" -> "channels"
      [] filename = "console.php" -> "console"
      [] OTHER -> "custom"

\* RouteParser::parse.  The lists of resources, groups, controllers and
\* middleware it also stores are empty for the texts above.
RouteParser_parse(file, unread) ==
    IF file.absolute_path \in unread THEN Err(IoErrorText)
    ELSE LET routes == extract_routes(Text(file.path))
             route_type == [route_type |-> JsonString(detect_route_type(file.name))]
             metadata ==
                IF routes = <<>> THEN route_type
                ELSE route_type @@ [routes |-> JsonArray(routes),
                                    route_count |-> JsonNumber(Len(routes))]
         IN  Ok([ParsedFile_new(file) EXCEPT
                    !.metadata = metadata,
                    !.symbols = <<[Symbol(file.name, "Unit") EXCEPT
                                      !.qualified_name = "routes/" \o file.name]>>])

\* The match on the file type: the route extractor for Route, the other
\* dedicated extractors for their types, and for every other type the
\* generic PHP extractor, whose result gets the key laravel_type.
LaravelParser_parse_file_by_type(file_type, file, unread) ==
    IF file_type = "Route" THEN RouteParser_parse(file, unread)
    ELSE IF file_type = "Controller" THEN ControllerParser_parse(file, unread)
    ELSE IF file_type = "Model" THEN ModelParser_parse(file, unread)
    ELSE IF file_type = "BladeView" THEN BladeParser_parse(file, unread)
    ELSE IF file_type \in {"Migration", "InertiaPage"} THEN extractor_parse(file, unread)
    ELSE insert_metadata(extractor_parse(file, unread),
                         [laravel_type |-> JsonString(file_type)])

\* A parse_file that picks the extractor by the type the file has after
\* refine_file_type.
LaravelParser_parse_file_refined(file, unread) ==
    LaravelParser_parse_file_by_type(
        refine_file_type(FileTypeOfPath[file.path],
                         [ParsedFile_new(file) EXCEPT !.symbols = Extracted(file.path)]),
        file, unread)

LaravelParser_parse_file(file, unread) ==
    LaravelParser_parse_file_by_type(FileTypeOfPath[file.path], file, unread)

parse_file(p, file, unread) ==
    IF p = "delphi" THEN DelphiParser_parse_file(file, unread)
    ELSE LaravelParser_parse_file(file, unread)

Parsers == {"delphi", "laravel"}

(***************************************************************************)
(* ParserRegistry (core/registry.rs): the parsers registered by            *)
(* with_defaults, id and availability, in the order of registration.       *)
(***************************************************************************)
ParserInfo(id, is_available) == [id |-> id, is_available |-> is_available]

ParserRegistry_with_defaults ==
    <<ParserInfo("delphi", TRUE), ParserInfo("laravel", TRUE), ParserInfo("nodejs", FALSE)>>

PARSER_REGISTRY == ParserRegistry_with_defaults

\* No invocation runs beside the one the specification follows.
NoTasks == tasks = <<>> /\ registry = PARSER_REGISTRY

(***************************************************************************)
(* ProjectParser::parse_project (parsers/traits.rs), one action per step   *)
(* of the loop body.  `index` is the zero-based enumerate() index; the     *)
(* file it stands at is files[index + 1].                                  *)
(***************************************************************************)
\* Files scan_files of each parser can hand to parse_project.
ParseUniverse(p) ==
    IF p = "delphi"
    THEN {create_source_file("Main.pas", 1200), create_source_file("Main.dfm", 300),
          create_source_file("lib/Util.pas", 80)}
    ELSE {create_source_file("app/Models/User.php", 900),
          create_source_file("routes/web.php", 400),
          create_source_file("resources/js/Pages/Home.vue", 700)}

DelphiInputs == ParseUniverse("delphi")
LaravelInputs == ParseUniverse("laravel")
InputsOf(p) == IF p = "delphi" THEN DelphiInputs ELSE LaravelInputs

SeqsUpTo(S, n) == UNION {[1..k -> S] : k \in 0..n}

ProgressEvent_one_based(i, total, file) ==
    [call |-> "progress", phase |-> "parsing", current |-> i + 1, total |-> total,
     current_file |-> file.path]

ProgressEvent(i, total, file) ==
    [call |-> "progress", phase |-> "parsing", current |-> i, total |-> total,
     current_file |-> file.path]

ParseEvent(i, file) == [call |-> "parse_file", current |-> i, current_file |-> file.path]

IdleTree == [root |-> "missing", composer |-> "absent", entries |-> {}]

ParseInit ==
    /\ parser \in Parsers
    /\ files \in SeqsUpTo(InputsOf(parser), MaxFiles)
    /\ unreadable \in SUBSET {f.absolute_path : f \in InputsOf(parser)}
    /\ progress \in BOOLEAN
    /\ index = 0
    /\ pc = "for"
    /\ result = ParseResult_new
    /\ returned = None
    /\ trace = <<>>
    /\ tree = IdleTree
    /\ reply = None
    /\ parsed = None
    /\ nodes = None
    /\ edges = None
    /\ NoTasks
    /\ source_text = <<>>

\* The callback is called with the progress of the file about to be parsed.
ProgressCallback ==
    /\ pc = "for"
    /\ index < Len(files)
    /\ progress
    /\ trace' = Append(trace, ProgressEvent(index, Len(files), files[index + 1]))
    /\ pc' = "parse_file"
    /\ UNCHANGED <<parser, files, unreadable, progress, index, result, returned>>
    /\ UNCHANGED <<treeVars, graphVars, taskVars, source_text>>

\* `if let Some(ref callback) = progress` with progress = None.
NoCallback ==
    /\ pc = "for"
    /\ index < Len(files)
    /\ ~progress
    /\ pc' = "parse_file"
    /\ UNCHANGED <<parser, files, unreadable, progress, index, result, returned, trace>>
    /\ UNCHANGED <<treeVars, graphVars, taskVars, source_text>>

ParseFileOk ==
    /\ pc = "parse_file"
    /\ LET file == files[index + 1]
           r == parse_file(parser, file, unreadable)
       IN  /\ r.ok
           /\ result' = add_parsed_file(result, r.value)
           /\ trace' = Append(trace, ParseEvent(index, file))
    /\ index' = index + 1
    /\ pc' = "for"
    /\ UNCHANGED <<parser, files, unreadable, progress, returned>>
    /\ UNCHANGED <<treeVars, graphVars, taskVars, source_text>>

\* A failure propagated with `?` instead of being recorded.
ParseFileErr_abort ==
    /\ pc = "parse_file"
    /\ LET file == files[index + 1]
           r == parse_file(parser, file, unreadable)
       IN  /\ ~r.ok
           /\ returned' = Err(r.error)
           /\ trace' = Append(trace, ParseEvent(index, file))
    /\ pc' = "done"
    /\ UNCHANGED <<parser, files, unreadable, progress, index, result>>
    /\ UNCHANGED <<treeVars, graphVars, taskVars, source_text>>

ParseFileErr ==
    /\ pc = "parse_file"
    /\ LET file == files[index + 1]
           r == parse_file(parser, file, unreadable)
       IN  /\ ~r.ok
           /\ result' = add_error(result, file.path, r.error)
           /\ trace' = Append(trace, ParseEvent(index, file))
    /\ index' = index + 1
    /\ pc' = "for"
    /\ UNCHANGED <<parser, files, unreadable, progress, returned>>
    /\ UNCHANGED <<treeVars, graphVars, taskVars, source_text>>

\* The iterator is exhausted: Ok(result).
Return ==
    /\ pc = "for"
    /\ index = Len(files)
    /\ returned' = Ok(result)
    /\ pc' = "done"
    /\ UNCHANGED <<parser, files, unreadable, progress, index, result, trace>>
    /\ UNCHANGED <<treeVars, graphVars, taskVars, source_text>>

Init == ParseInit

Next == ProgressCallback \/ NoCallback \/ ParseFileOk \/ ParseFileErr \/ Return

Spec == Init /\ [][Next]_vars

(***************************************************************************)
(* f32 arithmetic of the confidence scores.  An f32 value v in [0, 2) is   *)
(* kept as the integer v * 2^28, which is exact for every value of 2^-5 or *)
(* more; addition rounds the exact sum to a 24-bit significand, ties to    *)
(* even, as IEEE 754 does.                                                 *)
(***************************************************************************)
\* The distance between neighbouring f32 values at magnitude s.
RECURSIVE f32_ulp(_)
f32_ulp(s) == IF s < 16777216 THEN 1 ELSE 2 * f32_ulp(s \div 2)

f32_round(s) ==
    LET u == f32_ulp(s)
        q == s \div u
        r == s % u
    IN  IF 2 * r < u THEN q * u
        ELSE IF 2 * r > u THEN (q + 1) * u
        ELSE IF q % 2 = 0 THEN q * u ELSE (q + 1) * u

f32_add(a, b) == f32_round(a + b)

\* The f32 nearest to the decimal literal n/d (0 <= n/d < 2, d <= 20): the
\* quotient n * 2^28 / d is q + r/d, rounded to a multiple of the ulp.
TwoTo28 == 268435456

f32_of_ratio(n, d) ==
    LET q == (TwoTo28 \div d) * n + (((TwoTo28 % d) * n) \div d)
        r == ((TwoTo28 % d) * n) % d
        u == f32_ulp(q)
        base == (q \div u) * u
        twice == 2 * ((q - base) * d + r)
    IN  IF twice < u * d THEN base
        ELSE IF twice > u * d THEN base + u
        ELSE IF (q \div u) % 2 = 0 THEN base ELSE base + u

F32_0_0 == f32_of_ratio(0, 1)
F32_0_05 == f32_of_ratio(1, 20)
F32_0_1 == f32_of_ratio(1, 10)
F32_0_2 == f32_of_ratio(1, 5)
F32_0_3 == f32_of_ratio(3, 10)
F32_0_4 == f32_of_ratio(2, 5)
F32_0_5 == f32_of_ratio(1, 2)
F32_0_6 == f32_of_ratio(3, 5)
F32_1_0 == f32_of_ratio(1, 1)

f32_min(a, b) == IF a < b THEN a ELSE b

(***************************************************************************)
(* The project tree.  `root` says whether the root directory exists and    *)
(* whether read_dir succeeds on it, `composer` what composer.json is, and  *)
(* `entries` which of the files and directories of EntryUniverse exist.    *)
(***************************************************************************)
File(path, size) == [path |-> path, kind |-> "file", size |-> size]
Dir(path) == [path |-> path, kind |-> "dir", size |-> 0]

DelphiMarkers ==
    {File("P.dpr", 500), File("P.dproj", 4000), File("grp/G.groupproj", 900),
     File("U.PAS", 6000), File("forms/F.dfm", 2500), File("a/b/Deep.pas", 100)}

NodeMarkers ==
    {File("package.json", 700), File("src/app.ts", 1500), File("x.jsx", 800)}

PhpMarkers == {File("index.php", 400), File("vendor/lib.php", 9000)}

LaravelDirs == <<"app/Http/Controllers", "resources/views", "routes", "database/migrations">>

LaravelMarkers == {File("artisan", 1600)} \cup {Dir(LaravelDirs[i]) : i \in 1..4}

EntryUniverse == DelphiMarkers \cup NodeMarkers \cup PhpMarkers \cup LaravelMarkers

\* Facts about a path that its string determines, computed once.
PathInfo ==
    [p \in {e.path : e \in EntryUniverse} |->
        [name |-> file_name(p),
         has_ext |-> HasExtension(file_name(p)),
         ext_lower |-> to_lowercase(extension(file_name(p))),
         dirs |-> dir_components(p)]]

RootStates == {"missing", "unreadable", "ok"}
ComposerStates == {"absent", "plain", "laravel"}

\* root_path.join(name).exists() for a file directly below the root.
exists(t, name) ==
    /\ t.root # "missing"
    /\ \E e \in t.entries : e.path = name

composer_exists(t) == t.root # "missing" /\ t.composer # "absent"

\* std::fs::read_to_string(composer.json) is Ok and contains "laravel/framework";
\* a "plain" composer.json is one for which either of the two fails.
composer_names_laravel(t) == composer_exists(t) /\ t.composer = "laravel"

\* root_path.join(dir).is_dir()
is_dir(t, dir) ==
    /\ t.root # "missing"
    /\ \E e \in t.entries : e.path = dir /\ e.kind = "dir"

\* Files in the root directory or in one of its immediate subdirectories;
\* nothing when read_dir(root) fails.
has_files_with_extension(t, ext) ==
    /\ t.root = "ok"
    /\ \E e \in t.entries :
          /\ e.kind = "file"
          /\ Len(PathInfo[e.path].dirs) <= 1
          /\ PathInfo[e.path].has_ext
          /\ PathInfo[e.path].ext_lower = ext

(***************************************************************************)
(* ProjectDetector (core/detection.rs).  A scorer returns <<score,         *)
(* markers>>; `bump` is the `if cond { score += w; markers.push(m) }` step. *)
(***************************************************************************)
bump(acc, cond, w, marker) ==
    IF cond THEN <<f32_add(acc[1], w), Append(acc[2], marker)>> ELSE acc

\* `if cond { score += w }` without a marker (the js/jsx check).
bump_score(acc, cond, w) == IF cond THEN <<f32_add(acc[1], w), acc[2]>> ELSE acc

capped(acc) == <<f32_min(acc[1], F32_1_0), acc[2]>>

detect_delphi_uncapped(t) ==
    LET s0 == <<F32_0_0, <<>>>>
        s1 == bump(s0, has_files_with_extension(t, "dpr"), F32_0_4, "*.dpr")
        s2 == bump(s1, has_files_with_extension(t, "dproj"), F32_0_4, "*.dproj")
        s3 == bump(s2, has_files_with_extension(t, "groupproj"), F32_0_4, "*.groupproj")
        s4 == bump(s3, has_files_with_extension(t, "pas"), F32_0_3, "*.pas")
        s5 == bump(s4, has_files_with_extension(t, "dfm")
                         \/ has_files_with_extension(t, "fmx"), F32_0_2, "*.dfm/*.fmx")
    IN  s5

detect_delphi(t) ==
    LET s0 == <<F32_0_0, <<>>>>
        s1 == bump(s0, has_files_with_extension(t, "dpr"), F32_0_4, "*.dpr")
        s2 == bump(s1, has_files_with_extension(t, "dproj"), F32_0_4, "*.dproj")
        s3 == bump(s2, has_files_with_extension(t, "groupproj"), F32_0_4, "*.groupproj")
        s4 == bump(s3, has_files_with_extension(t, "pas"), F32_0_3, "*.pas")
        s5 == bump(s4, has_files_with_extension(t, "dfm")
                         \/ has_files_with_extension(t, "fmx"), F32_0_2, "*.dfm/*.fmx")
    IN  capped(s5)

RECURSIVE laravel_dirs_from(_, _, _)
laravel_dirs_from(t, acc, i) ==
    IF i > Len(LaravelDirs) THEN acc
    ELSE laravel_dirs_from(t, bump(acc, is_dir(t, LaravelDirs[i]), F32_0_05, LaravelDirs[i]),
                           i + 1)

detect_laravel_heavy_artisan(t) ==
    LET s0 == <<F32_0_0, <<>>>>
        s1 == bump(s0, composer_names_laravel(t), F32_0_6, "composer.json (laravel/framework)")
        s2 == bump(s1, exists(t, "artisan"), F32_0_3, "artisan")
    IN  capped(laravel_dirs_from(t, s2, 1))

detect_laravel(t) ==
    LET s0 == <<F32_0_0, <<>>>>
        s1 == bump(s0, composer_names_laravel(t), F32_0_6, "composer.json (laravel/framework)")
        s2 == bump(s1, exists(t, "artisan"), F32_0_2, "artisan")
    IN  capped(laravel_dirs_from(t, s2, 1))

detect_nodejs(t) ==
    LET s0 == <<F32_0_0, <<>>>>
        s1 == bump(s0, exists(t, "package.json"), F32_0_4, "package.json")
        s2 == bump(s1, exists(t, "tsconfig.json"), F32_0_2, "tsconfig.json")
        s3 == bump(s2, has_files_with_extension(t, "ts")
                         \/ has_files_with_extension(t, "tsx"), F32_0_2, "*.ts/*.tsx")
        s4 == bump_score(s3, has_files_with_extension(t, "js")
                               \/ has_files_with_extension(t, "jsx"), F32_0_1)
    IN  capped(s4)

detect_php(t) ==
    LET s0 == <<F32_0_0, <<>>>>
        s1 == bump(s0, composer_exists(t), F32_0_3, "composer.json")
        s2 == bump(s1, has_files_with_extension(t, "php"), F32_0_4, "*.php")
    IN  capped(s2)

get_parser_id(project_type) ==
    CASE project_type = "Delphi" -> "delphi"
      [] project_type = "Laravel" -> "laravel"
      [] project_type = "NodeJs" -> "nodejs"
      [] project_type = "Php" -> "php"
      [] OTHER -> "unknown"

DetectionResult_default ==
    [project_type |-> "Unknown", confidence |-> F32_0_0, parser_id |-> "",
     marker_files_found |-> <<>>, is_multi_language |-> FALSE, secondary_types |-> <<>>]

\* scores.push((type, score, markers)) when cond holds.
push_if(scores, cond, project_type, scored) ==
    IF cond THEN Append(scores, <<project_type, scored[1], scored[2]>>) ELSE scores

\* Vec::sort_by with b.1.partial_cmp(&a.1): a stable sort, greatest score
\* first, equal scores staying in the order they were pushed.
RECURSIVE insert_desc(_, _)
insert_desc(sorted, x) ==
    IF sorted = <<>> THEN <<x>>
    ELSE IF sorted[1][2] >= x[2]
         THEN <<sorted[1]>> \o insert_desc(Tail(sorted), x)
         ELSE <<x>> \o sorted

RECURSIVE insert_asc(_, _)
insert_asc(sorted, x) ==
    IF sorted = <<>> THEN <<x>>
    ELSE IF sorted[1][2] <= x[2]
         THEN <<sorted[1]>> \o insert_asc(Tail(sorted), x)
         ELSE <<x>> \o sorted

\* The comparator with its operands the other way round.
RECURSIVE sort_asc(_)
sort_asc(scores) ==
    IF scores = <<>> THEN <<>>
    ELSE insert_asc(sort_asc(SubSeq(scores, 1, Len(scores) - 1)), scores[Len(scores)])

RECURSIVE sort_desc(_)
sort_desc(scores) ==
    IF scores = <<>> THEN <<>>
    ELSE insert_desc(sort_desc(SubSeq(scores, 1, Len(scores) - 1)), scores[Len(scores)])

\* The four pushes, in the order they are made.
push_scores_php_always(d, l, n, p) ==
    LET c1 == push_if(<<>>, d[1] > F32_0_0, "Delphi", d)
        c2 == push_if(c1, l[1] > F32_0_0, "Laravel", l)
        c3 == push_if(c2, n[1] > F32_0_0, "NodeJs", n)
    IN  push_if(c3, p[1] > F32_0_0, "Php", p)

push_scores(d, l, n, p) ==
    LET c1 == push_if(<<>>, d[1] > F32_0_0, "Delphi", d)
        c2 == push_if(c1, l[1] > F32_0_0, "Laravel", l)
        c3 == push_if(c2, n[1] > F32_0_0, "NodeJs", n)
    IN  push_if(c3, p[1] > F32_0_0 /\ l[1] < F32_0_5, "Php", p)

\* The candidates of detect, in the order they are pushed.
candidates(t) ==
    push_scores(detect_delphi(t), detect_laravel(t), detect_nodejs(t), detect_php(t))

secondary_of_inclusive(rest) ==
    LET kept == SelectSeq(rest, LAMBDA c : c[2] >= F32_0_3)
    IN  [i \in 1..Len(kept) |-> <<kept[i][1], kept[i][2]>>]

\* The rest of the sorted candidates that pass the filter conf > 0.3.
secondary_of(rest) ==
    LET kept == SelectSeq(rest, LAMBDA c : c[2] > F32_0_3)
    IN  [i \in 1..Len(kept) |-> <<kept[i][1], kept[i][2]>>]

\* The result for a non-empty sorted list: its head is the detected type.
detection_result(first, secondary_types) ==
    [project_type |-> first[1],
     confidence |-> first[2],
     parser_id |-> get_parser_id(first[1]),
     marker_files_found |-> first[3],
     is_multi_language |-> secondary_types # <<>>,
     secondary_types |-> secondary_types]

detect_sorted(scores) ==
    IF scores = <<>> THEN DetectionResult_default
    ELSE detection_result(scores[1], secondary_of(Tail(scores)))

detect(t) == detect_sorted(sort_desc(candidates(t)))

(***************************************************************************)
(* Scanning: scan_directory of parsers/common/file_utils.rs, scan_files of *)
(* both parsers, and the scan_directory command (commands/mod.rs).  The    *)
(* order in which WalkDir yields entries is the file system's; the result  *)
(* is kept as the set of the SourceFiles found.                            *)
(***************************************************************************)
SourceFileOf == [e \in EntryUniverse |-> create_source_file(e.path, e.size)]

walk_directory(t, extensions, exclude_dirs) ==
    IF t.root # "ok" THEN {}
    ELSE {SourceFileOf[e] :
            e \in {x \in t.entries :
                     /\ x.kind = "file"
                     /\ \A d \in SeqToSet(PathInfo[x.path].dirs) : d \notin exclude_dirs
                     /\ PathInfo[x.path].has_ext
                     /\ PathInfo[x.path].ext_lower \in extensions}}

DelphiExcludeDirs == {"__history", "__recovery", "Win32", "Win64", "Debug", "Release", ".git"}
LaravelExcludeDirs == {"vendor", "node_modules", "storage", "bootstrap/cache", ".git"}

DelphiParser_scan_files(t) ==
    Ok(walk_directory(t, {"pas", "dfm", "fmx", "dpr", "dpk"}, DelphiExcludeDirs))

LaravelParser_scan_files(t) ==
    Ok(walk_directory(t, {"php", "vue", "jsx", "tsx", "svelte"}, LaravelExcludeDirs))

\* parser_id.unwrap_or_else(|| ProjectDetector::detect(root_path).parser_id)
effective_parser_id_delphi_default(t, parser_id) ==
    IF parser_id = None THEN "delphi" ELSE parser_id.some

effective_parser_id(t, parser_id) ==
    IF parser_id = None THEN detect(t).parser_id ELSE parser_id.some

scan_directory(t, parser_id) ==
    IF t.root = "missing" THEN Err("Path does not exist")
    ELSE LET id == effective_parser_id(t, parser_id)
         IN  CASE id = "delphi" -> DelphiParser_scan_files(t)
               [] id = "laravel" -> LaravelParser_scan_files(t)
               [] OTHER -> Err("Unknown parser: " \o id)

(***************************************************************************)
(* DetectSpec: a project tree is created and filled, and detect and scan   *)
(* are called on it.  `reply` is what the last call returned, and is       *)
(* forgotten when the tree changes.                                        *)
(***************************************************************************)
ParseIdle ==
    /\ files = <<>>
    /\ unreadable = {}
    /\ progress = FALSE
    /\ index = 0
    /\ pc = "idle"
    /\ result = ParseResult_new
    /\ returned = None
    /\ trace = <<>>

DetectInit ==
    /\ parser = "none"
    /\ ParseIdle
    /\ tree = IdleTree
    /\ reply = None
    /\ parsed = None
    /\ nodes = None
    /\ edges = None
    /\ NoTasks
    /\ source_text = <<>>

otherVars == <<parser, files, unreadable, progress, index, pc, result, returned,
               trace, parsed, nodes, edges, tasks, registry, source_text>>

\* mkdir of the root.
CreateRoot ==
    /\ tree.root = "missing"
    /\ tree' = [tree EXCEPT !.root = "ok"]
    /\ reply' = None
    /\ UNCHANGED otherVars

\* The read permission of the root is taken away or given back.
ChmodRoot ==
    /\ tree.root # "missing"
    /\ tree' = [tree EXCEPT !.root = IF @ = "ok" THEN "unreadable" ELSE "ok"]
    /\ reply' = None
    /\ UNCHANGED otherVars

\* composer.json is written, without or with "laravel/framework".
WriteComposer(c) ==
    /\ tree.root # "missing"
    /\ c # "absent"
    /\ tree.composer # c
    /\ tree' = [tree EXCEPT !.composer = c]
    /\ reply' = None
    /\ UNCHANGED otherVars

AddEntry(e) ==
    /\ tree.root # "missing"
    /\ e \notin tree.entries
    /\ Cardinality(tree.entries) < MaxEntries
    /\ tree' = [tree EXCEPT !.entries = @ \cup {e}]
    /\ reply' = None
    /\ UNCHANGED otherVars

AddDelphiMarker == \E e \in DelphiMarkers : AddEntry(e)

AddOtherEntry == \E e \in EntryUniverse \ DelphiMarkers : AddEntry(e)

ParserIdArgs == {None, Some("delphi"), Some("laravel"), Some("nodejs")}

Detect ==
    /\ reply' = [call |-> "detect", value |-> detect(tree)]
    /\ UNCHANGED tree
    /\ UNCHANGED otherVars

Scan(parser_id) ==
    /\ reply' = [call |-> "scan", parser_id |-> parser_id,
                 value |-> scan_directory(tree, parser_id)]
    /\ UNCHANGED tree
    /\ UNCHANGED otherVars

DetectNext ==
    \/ CreateRoot
    \/ ChmodRoot
    \/ \E c \in ComposerStates : WriteComposer(c)
    \/ AddDelphiMarker
    \/ AddOtherEntry
    \/ Detect
    \/ \E a \in ParserIdArgs : Scan(a)

DetectSpec == DetectInit /\ [][DetectNext]_vars

(***************************************************************************)
(* UnifiedNode (models/unified_node.rs).                                   *)
(***************************************************************************)
UnifiedNode_new(id, node_type, name) ==
    [id |-> id, label |-> name, qualified_name |-> name, name |-> name,
     node_type |-> node_type, size |-> 4, language |-> "", file_path |-> None,
     extra |-> EmptyMap]

with_file(node, path) == [node EXCEPT !.file_path = Some(path)]

with_language(node, lang) == [node EXCEPT !.language = lang]

\* A with_size that stores its argument as it is.
with_size_unclamped(node, size) == [node EXCEPT !.size = size]

\* size.clamp(1, 12)
with_size(node, size) ==
    [node EXCEPT !.size = IF size < 1 THEN 1 ELSE IF size > 12 THEN 12 ELSE size]

(***************************************************************************)
(* DelphiParser::generate_nodes (parsers/delphi/parser.rs).                *)
(***************************************************************************)
classify_node_type(file) ==
    LET ext == to_lowercase(file.extension)
    IN  CASE ext = "pas" -> "Module"
          [] ext \in {"dfm", "fmx"} -> "Form"
          [] ext = "dpr" -> "SourceFile"
          [] ext = "dpk" -> "Package"
          [] OTHER -> "SourceFile"

delphi_file_size_exclusive(size_bytes) ==
    IF size_bytes < 1000 THEN 2
    ELSE IF size_bytes < 5000 THEN 4
    ELSE IF size_bytes < 20000 THEN 6
    ELSE IF size_bytes < 50000 THEN 8
    ELSE 10

delphi_file_size(size_bytes) ==
    IF size_bytes <= 1000 THEN 2
    ELSE IF size_bytes <= 5000 THEN 4
    ELSE IF size_bytes <= 20000 THEN 6
    ELSE IF size_bytes <= 50000 THEN 8
    ELSE 10

symbol_key_name_only(parsed_file, symbol) == symbol.name

symbol_key(parsed_file, symbol) == parsed_file.source.path \o "::" \o symbol.name

DelphiNodeSymbolTypes == {"Class", "Interface"}

\* A file node whose id is the hash of the unit name, the file's stem.
delphi_file_node_by_unit(parsed_file) ==
    with_size(
        with_language(
            with_file(UnifiedNode_new(generate_id(file_stem(parsed_file.source.name)),
                                      classify_node_type(parsed_file.source),
                                      parsed_file.source.name),
                      parsed_file.source.path),
            "delphi"),
        delphi_file_size(parsed_file.source.size_bytes))

delphi_file_node(parsed_file) ==
    with_size(
        with_language(
            with_file(UnifiedNode_new(generate_id(parsed_file.source.path),
                                      classify_node_type(parsed_file.source),
                                      parsed_file.source.name),
                      parsed_file.source.path),
            "delphi"),
        delphi_file_size(parsed_file.source.size_bytes))

delphi_class_node(parsed_file, symbol) ==
    with_size(
        with_language(
            with_file(UnifiedNode_new(generate_id(symbol_key(parsed_file, symbol)),
                                      "Class", symbol.name),
                      parsed_file.source.path),
            "delphi"),
        4)

\* The class nodes of symbols[i..], in order.
RECURSIVE delphi_symbol_nodes(_, _)
delphi_symbol_nodes(parsed_file, i) ==
    IF i > Len(parsed_file.symbols) THEN <<>>
    ELSE LET symbol == parsed_file.symbols[i]
             rest == delphi_symbol_nodes(parsed_file, i + 1)
         IN  IF symbol.symbol_type \in DelphiNodeSymbolTypes
             THEN <<delphi_class_node(parsed_file, symbol)>> \o rest
             ELSE rest

RECURSIVE DelphiParser_generate_nodes_from(_, _)
DelphiParser_generate_nodes_from(parse_result, i) ==
    IF i > Len(parse_result.files) THEN <<>>
    ELSE LET parsed_file == parse_result.files[i]
         IN  <<delphi_file_node(parsed_file)>>
                \o delphi_symbol_nodes(parsed_file, 1)
                \o DelphiParser_generate_nodes_from(parse_result, i + 1)

DelphiParser_generate_nodes(parse_result) ==
    DelphiParser_generate_nodes_from(parse_result, 1)

(***************************************************************************)
(* LaravelParser::generate_nodes (parsers/laravel/parser.rs).              *)
(***************************************************************************)
Custom(s) == "Custom(" \o s \o ")"

laravel_node_type(file_type) ==
    CASE file_type = "Controller" -> "Controller"
      [] file_type = "Model" -> "Model"
      [] file_type = "BladeView" -> "View"
      [] file_type = "Route" -> "Route"
      [] file_type = "Migration" -> "Migration"
      [] file_type = "Middleware" -> "Middleware"
      [] file_type = "Config" -> "ConfigFile"
      [] file_type = "InertiaPage" -> "Component"
      [] file_type = "Contract" -> "Interface"
      [] file_type = "Trait" -> "Trait"
      [] file_type = "Interface" -> "Interface"
      [] file_type = "Php" -> "SourceFile"
      [] OTHER -> Custom(to_lowercase(file_type))

laravel_file_size(file_type) ==
    CASE file_type = "Controller" -> 8
      [] file_type \in {"Model", "Service", "Repository"} -> 7
      [] file_type \in {"Route", "InertiaPage", "Middleware", "Provider", "Action"} -> 6
      [] file_type \in {"BladeView", "Migration", "Request", "Resource", "Event",
                        "Listener", "Job", "Policy", "Command", "Notification",
                        "Mailable", "Observer", "Contract", "Interface", "Trait"} -> 5
      [] file_type \in {"Rule", "Scope", "Cast", "Dto", "Exception", "Enum", "Config",
                        "Seeder", "Factory", "Test"} -> 4
      [] OTHER -> 3

\* The if / else-if chain over the metadata keys namespace, view_name and
\* page_name: the first key present decides, and sets the name only when
\* its value is a string.
laravel_qualified_name(node, metadata) ==
    LET set(key, prefix) ==
            IF metadata[key].kind = "string"
            THEN [node EXCEPT !.qualified_name = prefix \o metadata[key].str]
            ELSE node
    IN  IF "namespace" \in DOMAIN metadata THEN set("namespace", "")
        ELSE IF "view_name" \in DOMAIN metadata THEN set("view_name", "view:")
        ELSE IF "page_name" \in DOMAIN metadata THEN set("page_name", "inertia:")
        ELSE node

laravel_file_type(parsed_file) ==
    refine_file_type(FileTypeOfPath[parsed_file.source.path], parsed_file)

laravel_file_node(parsed_file) ==
    LET file_type == laravel_file_type(parsed_file)
        file_node ==
            with_language(
                with_file(UnifiedNode_new(generate_id(parsed_file.source.path),
                                          laravel_node_type(file_type),
                                          parsed_file.source.name),
                          parsed_file.source.path),
                "php")
    IN  [laravel_qualified_name(file_node, parsed_file.metadata)
            EXCEPT !.size = laravel_file_size(file_type),
                   !.extra = parsed_file.metadata]

LaravelNodeSymbolTypes == {"Class", "Interface", "Trait", "Method", "Function"}

laravel_symbol_node_type(file_type, symbol) ==
    IF symbol.symbol_type = "Class"
    THEN (IF file_type = "Controller" THEN "Controller"
          ELSE IF file_type = "Model" THEN "Model"
          ELSE "Class")
    ELSE symbol.symbol_type

laravel_symbol_node(parsed_file, file_type, symbol) ==
    [with_language(
        with_file(UnifiedNode_new(generate_id(symbol_key(parsed_file, symbol)),
                                  laravel_symbol_node_type(file_type, symbol),
                                  symbol.name),
                  parsed_file.source.path),
        "php")
     EXCEPT !.qualified_name = symbol.qualified_name]

RECURSIVE laravel_symbol_nodes(_, _, _)
laravel_symbol_nodes(parsed_file, file_type, i) ==
    IF i > Len(parsed_file.symbols) THEN <<>>
    ELSE LET symbol == parsed_file.symbols[i]
             rest == laravel_symbol_nodes(parsed_file, file_type, i + 1)
         IN  IF symbol.symbol_type \in LaravelNodeSymbolTypes
             THEN <<laravel_symbol_node(parsed_file, file_type, symbol)>> \o rest
             ELSE rest

RECURSIVE LaravelParser_generate_nodes_from(_, _)
LaravelParser_generate_nodes_from(parse_result, i) ==
    IF i > Len(parse_result.files) THEN <<>>
    ELSE LET parsed_file == parse_result.files[i]
         IN  <<laravel_file_node(parsed_file)>>
                \o laravel_symbol_nodes(parsed_file, laravel_file_type(parsed_file), 1)
                \o LaravelParser_generate_nodes_from(parse_result, i + 1)

LaravelParser_generate_nodes(parse_result) ==
    LaravelParser_generate_nodes_from(parse_result, 1)

\* The nodes of a list whose id no earlier node of the list has.
RECURSIVE first_of_each_id(_, _)
first_of_each_id(node_list, i) ==
    IF i > Len(node_list) THEN <<>>
    ELSE (IF \E j \in 1..(i - 1) : node_list[j].id = node_list[i].id
          THEN <<>> ELSE <<node_list[i]>>)
            \o first_of_each_id(node_list, i + 1)

\* A generate_nodes that keeps one node of each id.
generate_nodes_deduplicated(p, parse_result) ==
    first_of_each_id(IF p = "delphi" THEN DelphiParser_generate_nodes(parse_result)
                     ELSE LaravelParser_generate_nodes(parse_result), 1)

generate_nodes(p, parse_result) ==
    IF p = "delphi" THEN DelphiParser_generate_nodes(parse_result)
    ELSE LaravelParser_generate_nodes(parse_result)

(***************************************************************************)
(* Dependency, UnifiedEdge and DelphiParser::generate_edges.               *)
(***************************************************************************)
\* format!("{}->{}:{:?}", source, target, edge_type), kept as a tuple.
UnifiedEdge_new(source, target, edge_type) ==
    [id |-> <<source, "->", target, ":", edge_type>>, source |-> source,
     target |-> target, edge_type |-> edge_type, label |-> None]

with_label(edge, label) == [edge EXCEPT !.label = Some(label)]

\* The concatenation of a sequence of sequences.
RECURSIVE Flatten(_)
Flatten(seqs) == IF seqs = <<>> THEN <<>> ELSE Head(seqs) \o Flatten(Tail(seqs))

\* Pairs (path of a .pas, path of a form file) with stems equal but for
\* ASCII case: for each .pas in list order, the forms in list order.
DelphiParser_detect_file_pairs_any_stem(sources) ==
    LET pas_files == SelectSeq(sources, LAMBDA f : eq_ignore_ascii_case(f.extension, "pas"))
        form_files == SelectSeq(sources, LAMBDA f :
                          \/ eq_ignore_ascii_case(f.extension, "dfm")
                          \/ eq_ignore_ascii_case(f.extension, "fmx"))
        matches(pas) == form_files
    IN  Flatten([i \in 1..Len(pas_files) |->
                   [j \in 1..Len(matches(pas_files[i])) |->
                      <<pas_files[i].path, matches(pas_files[i])[j].path>>]])

DelphiParser_detect_file_pairs(sources) ==
    LET pas_files == SelectSeq(sources, LAMBDA f : eq_ignore_ascii_case(f.extension, "pas"))
        form_files == SelectSeq(sources, LAMBDA f :
                          \/ eq_ignore_ascii_case(f.extension, "dfm")
                          \/ eq_ignore_ascii_case(f.extension, "fmx"))
        matches(pas) == SelectSeq(form_files, LAMBDA form :
                          eq_ignore_ascii_case(file_stem(pas.name), file_stem(form.name)))
    IN  Flatten([i \in 1..Len(pas_files) |->
                   [j \in 1..Len(matches(pas_files[i])) |->
                      <<pas_files[i].path, matches(pas_files[i])[j].path>>]])

\* LaravelParser::detect_file_pairs: Laravel has no file pairs.
LaravelParser_detect_file_pairs(sources) == <<>>

\* A detect_file_pairs that pairs files of one directory only.
detect_file_pairs_same_directory(p, sources) ==
    SelectSeq(IF p = "delphi" THEN DelphiParser_detect_file_pairs(sources)
              ELSE LaravelParser_detect_file_pairs(sources),
              LAMBDA pr : Len(pr[1]) - Len(file_name(pr[1]))
                             = Len(pr[2]) - Len(file_name(pr[2]))
                          /\ SubSeq(pr[1], 1, Len(pr[1]) - Len(file_name(pr[1])))
                                = SubSeq(pr[2], 1, Len(pr[2]) - Len(file_name(pr[2]))))

detect_file_pairs(p, sources) ==
    IF p = "delphi" THEN DelphiParser_detect_file_pairs(sources)
    ELSE LaravelParser_detect_file_pairs(sources)

\* The Uses edges of one file: one per dependency, to the id of its name.
delphi_uses_edges_resolved(parsed_file, node_list) ==
    LET kept == SelectSeq(parsed_file.dependencies,
                          LAMBDA dep : \E i \in 1..Len(node_list) :
                                          node_list[i].id = generate_id(dep.target))
    IN  [j \in 1..Len(kept) |->
            with_label(UnifiedEdge_new(generate_id(parsed_file.source.path),
                                       generate_id(kept[j].target), "Uses"),
                       kept[j].target)]

delphi_uses_edges(parsed_file, node_list) ==
    LET kept == parsed_file.dependencies
    IN  [j \in 1..Len(kept) |->
            with_label(UnifiedEdge_new(generate_id(parsed_file.source.path),
                                       generate_id(kept[j].target), "Uses"),
                       kept[j].target)]

\* A generate_edges whose FilePair edges go from the form to the unit.
DelphiParser_generate_edges_form_first(parse_result, node_list) ==
    LET sources == [i \in 1..Len(parse_result.files) |-> parse_result.files[i].source]
        pairs == DelphiParser_detect_file_pairs(sources)
    IN  Flatten([i \in 1..Len(parse_result.files) |->
                   delphi_uses_edges(parse_result.files[i], node_list)])
        \o [k \in 1..Len(pairs) |->
              UnifiedEdge_new(generate_id(pairs[k][2]), generate_id(pairs[k][1]),
                              "FilePair")]

DelphiParser_generate_edges(parse_result, node_list) ==
    LET sources == [i \in 1..Len(parse_result.files) |-> parse_result.files[i].source]
        pairs == DelphiParser_detect_file_pairs(sources)
    IN  Flatten([i \in 1..Len(parse_result.files) |->
                   delphi_uses_edges(parse_result.files[i], node_list)])
        \o [k \in 1..Len(pairs) |->
              UnifiedEdge_new(generate_id(pairs[k][1]), generate_id(pairs[k][2]),
                              "FilePair")]

(***************************************************************************)
(* LaravelParser::generate_edges (parsers/laravel/parser.rs).              *)
(***************************************************************************)
\* serde_json::Value::get(key) with a string key, as_str and as_array.
json_get(v, key) ==
    IF v.kind = "object" /\ key \in DOMAIN v.fields THEN Some(v.fields[key]) ELSE None

as_str(v) == IF v.kind = "string" THEN Some(v.str) ELSE None

\* The items of metadata[key] when it is there and an array, else none.
array_items(metadata, key) ==
    IF key \in DOMAIN metadata /\ metadata[key].kind = "array"
    THEN metadata[key].items ELSE <<>>

\* A lookup in which of several nodes with one key the first one stays.
node_lookup_first(node_list, field, key) ==
    LET hits == {i \in 1..Len(node_list) : node_list[i][field] = key}
    IN  IF hits = {} THEN None
        ELSE Some(node_list[CHOOSE i \in hits : \A j \in hits : i <= j])

\* HashMap built by collect() over the nodes in order: of several nodes with
\* one key the last one stays.
node_lookup(node_list, field, key) ==
    LET hits == {i \in 1..Len(node_list) : node_list[i][field] = key}
    IN  IF hits = {} THEN None
        ELSE Some(node_list[CHOOSE i \in hits : \A j \in hits : j <= i])

\* The edge to a looked-up node, none when the lookup found nothing.
edge_to_synthesized(source_id, target_node, edge_type) ==
    IF target_node = None
    THEN <<UnifiedEdge_new(source_id, generate_id(""), edge_type)>>
    ELSE <<UnifiedEdge_new(source_id, target_node.some.id, edge_type)>>

edge_to(source_id, target_node, edge_type) ==
    IF target_node = None THEN <<>>
    ELSE <<UnifiedEdge_new(source_id, target_node.some.id, edge_type)>>

relationship_edge_type(rel_type_str) ==
    CASE rel_type_str \in {"hasMany", "hasManyThrough"} -> Custom("has_many")
      [] rel_type_str \in {"hasOne", "hasOneThrough"} -> Custom("has_one")
      [] rel_type_str = "belongsTo" -> Custom("belongs_to")
      [] rel_type_str = "belongsToMany" -> Custom("belongs_to_many")
      [] rel_type_str \in {"morphTo", "morphOne", "morphMany"} -> Custom("morph")
      [] OTHER -> "Uses"

str_or_empty(v) == IF as_str(v) = None THEN "" ELSE as_str(v).some

relationship_edges(source_id, rel, node_list) ==
    IF json_get(rel, "type") # None /\ json_get(rel, "related_model") # None
    THEN edge_to(source_id,
                 node_lookup(node_list, "name",
                             str_or_empty(json_get(rel, "related_model").some)),
                 relationship_edge_type(str_or_empty(json_get(rel, "type").some)))
    ELSE <<>>

\* An edge to the node whose qualified name is prefix + the string v.
qualified_edge(source_id, v, prefix, edge_type, node_list) ==
    IF as_str(v) = None THEN <<>>
    ELSE edge_to(source_id,
                 node_lookup(node_list, "qualified_name", prefix \o as_str(v).some),
                 edge_type)

route_edges(source_id, route, node_list) ==
    LET action == json_get(route, "action")
        controller == IF action = None THEN None
                      ELSE json_get(action.some, "controller")
    IN  IF controller = None \/ as_str(controller.some) = None THEN <<>>
        ELSE edge_to(source_id,
                     node_lookup(node_list, "name", as_str(controller.some).some),
                     Custom("routes_to"))

\* Whether a node is a migration that creates the table.
creates_table(node, table_name) ==
    /\ node.node_type = "Migration"
    /\ \E k \in 1..Len(array_items(node.extra, "tables_created")) :
          as_str(array_items(node.extra, "tables_created")[k]) = Some(table_name)

\* The first migration node that creates the table a foreign key is on.
foreign_key_edges(source_id, fk, node_list) ==
    LET on_table == json_get(fk, "on_table")
    IN  IF on_table = None \/ as_str(on_table.some) = None THEN <<>>
        ELSE LET hits == {i \in 1..Len(node_list) :
                            creates_table(node_list[i], as_str(on_table.some).some)}
             IN  IF hits = {} THEN <<>>
                 ELSE <<UnifiedEdge_new(
                          source_id,
                          node_list[CHOOSE i \in hits : \A j \in hits : i <= j].id,
                          Custom("references"))>>

\* The edges one parsed file gives, in the order the code pushes them.
laravel_file_edges(parsed_file, node_list) ==
    LET source_id == generate_id(parsed_file.source.path)
        metadata == parsed_file.metadata
        deps == parsed_file.dependencies
        each(key, edges_of(_)) ==
            Flatten([k \in 1..Len(array_items(metadata, key)) |->
                        edges_of(array_items(metadata, key)[k])])
    IN  Flatten([k \in 1..Len(deps) |->
                   edge_to(source_id,
                           node_lookup(node_list, "name", rsplit_backslash(deps[k].target)),
                           "Uses")])
        \o each("relationships", LAMBDA rel : relationship_edges(source_id, rel, node_list))
        \o each("views_referenced", LAMBDA v :
                  qualified_edge(source_id, v, "view:", Custom("renders"), node_list))
        \o each("inertia_pages", LAMBDA v :
                  qualified_edge(source_id, v, "inertia:", Custom("renders"), node_list))
        \o each("routes", LAMBDA route : route_edges(source_id, route, node_list))
        \o (IF "extends" \in DOMAIN metadata
            THEN qualified_edge(source_id, metadata["extends"], "view:", "Extends", node_list)
            ELSE <<>>)
        \o each("includes", LAMBDA v :
                  qualified_edge(source_id, v, "view:", Custom("includes"), node_list))
        \o each("foreign_keys", LAMBDA fk : foreign_key_edges(source_id, fk, node_list))

LaravelParser_generate_edges(parse_result, node_list) ==
    Flatten([i \in 1..Len(parse_result.files) |->
               laravel_file_edges(parse_result.files[i], node_list)])

generate_edges(p, parse_result, node_list) ==
    IF p = "delphi" THEN DelphiParser_generate_edges(parse_result, node_list)
    ELSE LaravelParser_generate_edges(parse_result, node_list)

\* ProjectParser::build_graph (parsers/traits.rs).
graph_of(p, parse_result, node_list) ==
    [nodes |-> node_list, edges |-> generate_edges(p, parse_result, node_list)]

\* A build_graph that makes the edges of each file right after the nodes of
\* that file, from the nodes generated up to then.
build_graph_file_by_file(p, parse_result) ==
    [nodes |-> generate_nodes(p, parse_result),
     edges |-> Flatten([i \in 1..Len(parse_result.files) |->
                  generate_edges(p, [parse_result EXCEPT !.files = <<parse_result.files[i]>>],
                                 generate_nodes(p, [parse_result EXCEPT
                                                       !.files = SubSeq(@, 1, i)]))])]

build_graph(p, parse_result) == graph_of(p, parse_result, generate_nodes(p, parse_result))

(***************************************************************************)
(* GraphSpec: a ParseResult is put together file by file, the way the      *)
(* extractors and parse_project do it, and build_graph is called on it.    *)
(* `parsed` is the ParsedFile under construction, `nodes` and `edges` what *)
(* the last build_graph returned, forgotten when the ParseResult changes.  *)
(***************************************************************************)
\* The source files and the metadata their extractor attaches: a controller
\* that renders views, a model with relationships, a view that extends and
\* includes views, a route file and a migration with foreign keys; each
\* names something the project has and something it has not.
GraphFiles(p) ==
    IF p = "delphi"
    THEN {<<create_source_file("Main.pas", 1000), EmptyMap>>,
          <<create_source_file("Main.dfm", 5001), EmptyMap>>,
          <<create_source_file("forms/MAIN.fmx", 20001), EmptyMap>>,
          <<create_source_file("lib/Util.pas", 50001), EmptyMap>>}
    ELSE {<<create_source_file("app/Http/Controllers/UserController.php", 1000),
            [namespace |-> JsonString("App\\Http\\Controllers"),
             views_referenced |-> JsonArray(<<JsonString("home"), JsonString("gone")>>),
             inertia_pages |-> JsonArray(<<JsonString("Dashboard")>>)]>>,
          <<create_source_file("app/Models/User.php", 5001),
            [namespace |-> JsonNull,
             relationships |-> JsonArray(<<
                JsonObject([type |-> JsonString("hasMany"),
                            related_model |-> JsonString("Post")]),
                JsonObject([type |-> JsonString("belongsTo"),
                            related_model |-> JsonString("User")])>>)]>>,
          <<create_source_file("resources/views/home.blade.php", 20001),
            [view_name |-> JsonString("home"),
             extends |-> JsonString("layouts.app"),
             includes |-> JsonArray(<<JsonString("home"), JsonString("partials.nav")>>)]>>,
          <<create_source_file("routes/web.php", 400),
            [routes |-> JsonArray(<<
                JsonObject([action |-> JsonObject([controller |-> JsonString("UserController")])]),
                JsonObject([action |-> JsonString("closure")])>>)]>>,
          <<create_source_file("database/migrations/2024_create_users.php", 800),
            [tables_created |-> JsonArray(<<JsonString("users")>>),
             foreign_keys |-> JsonArray(<<
                JsonObject([on_table |-> JsonString("users")]),
                JsonObject([on_table |-> JsonString("teams")])>>)]>>}

\* The symbols an extractor finds: a class, the class of that name in
\* another namespace, and a kind that is no class.
GraphSymbols(p) ==
    IF p = "delphi"
    THEN {Symbol("TMain", "Class"), Symbol("Trim", "Function")}
    ELSE {Symbol("User", "Class"), Symbol("UserController", "Class"),
          [Symbol("User", "Class") EXCEPT !.qualified_name = "App\\Domain\\User"],
          Symbol("count", "Variable")}

\* The names in uses clauses and use statements.
GraphDependencies(p) ==
    IF p = "delphi"
    THEN {Dependency("SysUtils"), Dependency("Util")}
    ELSE {Dependency("App\\Models\\User"), Dependency("App\\Missing\\Ghost")}

GraphIdle ==
    /\ files = <<>>
    /\ unreadable = {}
    /\ progress = FALSE
    /\ index = 0
    /\ pc = "idle"
    /\ returned = None
    /\ trace = <<>>
    /\ tree = IdleTree
    /\ reply = None

GraphInit ==
    /\ parser \in Parsers
    /\ GraphIdle
    /\ result = ParseResult_new
    /\ parsed = None
    /\ nodes = None
    /\ edges = None
    /\ NoTasks
    /\ source_text = <<>>

graphIdleVars == <<parser, files, unreadable, progress, index, pc, returned, trace,
                   tree, reply, tasks, registry, source_text>>

\* The symbols and dependencies of a ParsedFile, and of all of a ParseResult.
FactsOf(pf) == Len(pf.symbols) + Len(pf.dependencies)

RECURSIVE FactCount(_, _)
FactCount(parse_result, i) ==
    IF i > Len(parse_result.files) THEN 0
    ELSE FactsOf(parse_result.files[i]) + FactCount(parse_result, i + 1)

\* ParsedFile::new(file.clone()), and the extractor's metadata.
BeginFile ==
    /\ parsed = None
    /\ Len(result.files) < MaxParsedFiles
    /\ \E f \in GraphFiles(parser) :
          parsed' = Some([ParsedFile_new(f[1]) EXCEPT !.metadata = f[2]])
    /\ UNCHANGED <<result, nodes, edges>>
    /\ UNCHANGED graphIdleVars

\* parsed.add_symbol(symbol)
AddSymbol ==
    /\ parsed # None
    /\ FactCount(result, 1) + FactsOf(parsed.some) < MaxSymbols
    /\ \E symbol \in GraphSymbols(parser) :
          parsed' = Some(add_symbol(parsed.some, symbol))
    /\ UNCHANGED <<result, nodes, edges>>
    /\ UNCHANGED graphIdleVars

\* parsed.add_dependency(dep)
AddDependency ==
    /\ parsed # None
    /\ FactCount(result, 1) + FactsOf(parsed.some) < MaxSymbols
    /\ \E dep \in GraphDependencies(parser) :
          parsed' = Some(add_dependency(parsed.some, dep))
    /\ UNCHANGED <<result, nodes, edges>>
    /\ UNCHANGED graphIdleVars

\* result.add_parsed_file(parsed)
AddParsedFile ==
    /\ parsed # None
    /\ result' = add_parsed_file(result, parsed.some)
    /\ parsed' = None
    /\ nodes' = None
    /\ edges' = None
    /\ UNCHANGED graphIdleVars

\* parser.build_graph(&result): generate_nodes, then generate_edges on them.
BuildGraph ==
    /\ parsed = None
    /\ \E graph \in {build_graph(parser, result)} :
          /\ nodes' = Some(graph.nodes)
          /\ edges' = Some(graph.edges)
    /\ UNCHANGED <<result, parsed>>
    /\ UNCHANGED graphIdleVars

GraphNext ==
    \/ BeginFile
    \/ AddSymbol
    \/ AddDependency
    \/ AddParsedFile
    \/ BuildGraph

GraphSpec == GraphInit /\ [][GraphNext]_vars

(***************************************************************************)
(* FileSpec: one file goes through extraction and graph assembly.  Init    *)
(* draws the file (path and size) and the symbols its extractor found;     *)
(* the file is added to the ParseResult and build_graph is called.         *)
(***************************************************************************)
\* Sizes on both sides of every breakpoint.
FileSizes == {0, 1000, 1001, 5000, 5001, 20000, 20001, 50000, 50001}

\* <<relative path, size in bytes>> of the files a parser is given.
FileInputs(p) ==
    IF p = "delphi"
    THEN {<<"Main.pas", s>> : s \in FileSizes}
            \cup {<<"Main.dfm", 1000>>, <<"P.dpr", 5001>>, <<"lib/Pkg.dpk", 20001>>,
                  <<"README.txt", 3>>}
    ELSE {<<"app/Http/Controllers/UserController.php", s>> : s \in {1000, 50001}}
            \cup {<<"app/Support/Helper.php", s>> : s \in {1000, 50001}}
            \cup {<<"app/Models/User.php", 5001>>,
                  <<"app/Models/UserService.php", 5001>>,
                  <<"app/Services/OrderService.php", 20001>>,
                  <<"app/Services/PaymentController.php", 900>>,
                  <<"app/Http/Middleware/Authenticate.php", 700>>,
                  <<"app/Billing/Invoice.php", 1001>>,
                  <<"app/Console/Commands/Sync.php", 300>>,
                  <<"database/migrations/2024_create_users.php", 800>>,
                  <<"resources/views/home.blade.php", 20000>>,
                  <<"routes/web.php", 400>>,
                  <<"config/app.php", 200>>}

\* The classes an extractor reports, with the facts the refinement reads.
ClassSymbol(name, extends, implements) ==
    [Symbol(name, "Class") EXCEPT !.extends = extends, !.implements = implements]

FileClasses ==
    {ClassSymbol("Invoice", None, None),
     ClassSymbol("Account", Some("Illuminate\\Database\\Eloquent\\Model"), None),
     ClassSymbol("OrderService", None, None),
     ClassSymbol("UserController", Some("Controller"), None),
     ClassSymbol("SendMail", None, Some(<<"Serializable", "ShouldQueue">>)),
     ClassSymbol("PriceRule", Some("BaseRule"), Some(<<"ShouldQueue", "ValidationRule">>))}

\* What the extractor found in the file: the classes in their order, or one
\* symbol of some other kind.
FileSymbolLists ==
    SeqsUpTo(FileClasses, MaxClasses)
        \cup {<<Symbol("Thing", ty)>> : ty \in SymbolTypes}
        \cup {<<Symbol("Countable", "Interface"), ClassSymbol("Invoice", None, None)>>}

FileInit ==
    /\ parser \in Parsers
    /\ GraphIdle
    /\ result = ParseResult_new
    /\ nodes = None
    /\ edges = None
    /\ NoTasks
    /\ source_text = <<>>
    /\ \E f \in FileInputs(parser), symbols \in FileSymbolLists :
          parsed = Some([ParsedFile_new(create_source_file(f[1], f[2]))
                            EXCEPT !.symbols = symbols])

FileNext == AddParsedFile \/ BuildGraph

FileSpec == FileInit /\ [][FileNext]_vars

(***************************************************************************)
(* ParseFileSpec: parse_file is called on one file after another, on a     *)
(* file system where some of the files cannot be read.  `files` holds the  *)
(* file of the last call and `reply` what the call returned.               *)
(***************************************************************************)
\* The files parse_file is called on: for Delphi also files of an
\* extension no extractor is there for.
ParseFileInputs(p) ==
    IF p = "delphi"
    THEN {create_source_file(path, 100) :
            path \in {"Main.pas", "Main.dfm", "forms/MAIN.FMX", "P.dpr", "lib/Pkg.dpk",
                      "README.txt", "Makefile"}}
    ELSE {create_source_file(path, 100) : path \in LaravelPaths}

\* The absolute paths that may be unreadable.
MaybeUnreadable ==
    {RootDir \o path : path \in {"Main.pas", "README.txt", "routes/web.php",
                                 "app/routes/web.php", "app/Support/Helper.php"}}

ParseFileInit ==
    /\ parser \in Parsers
    /\ unreadable \in SUBSET MaybeUnreadable
    /\ files = <<>>
    /\ progress = FALSE
    /\ index = 0
    /\ pc = "idle"
    /\ returned = None
    /\ trace = <<>>
    /\ tree = IdleTree
    /\ reply = None
    /\ result = ParseResult_new
    /\ parsed = None
    /\ nodes = None
    /\ edges = None
    /\ NoTasks
    /\ source_text = <<>>

\* parser.parse_file(&file, &config)
ParseFile ==
    /\ \E file \in ParseFileInputs(parser) :
          /\ files' = <<file>>
          /\ reply' = Some(parse_file(parser, file, unreadable))
    /\ UNCHANGED <<parser, unreadable, progress, index, pc, result, returned, trace,
                   tree, parsed, nodes, edges, tasks, registry, source_text>>

ParseFileNext == ParseFile

ParseFileSpec == ParseFileInit /\ [][ParseFileNext]_vars

(***************************************************************************)
(* ConcurrentSpec: two invocations, each of detect, scan or parse_project, *)
(* run side by side on two root directories.  A task record holds what an  *)
(* invocation has on its stack; the file system (`unreadable`, the trees)  *)
(* is only read.  A step is one detect, one scan, or one iteration of the  *)
(* parse_project loop; `trace` records whose step it was.                  *)
(***************************************************************************)
OtherRootDir == "/other/"

TaskRoots == <<RootDir, OtherRootDir>>

\* create_source_file below another root: the absolute path differs.
in_root(root, file) == [file EXCEPT !.absolute_path = root \o file.path]

\* A Delphi project and a Laravel project.
TaskTrees ==
    {[root |-> "ok", composer |-> "absent",
      entries |-> {File("P.dpr", 500), File("U.PAS", 6000)}],
     [root |-> "ok", composer |-> "laravel",
      entries |-> {File("artisan", 1600), Dir("routes"), File("index.php", 400)}]}

\* The files parse_project is given in a task.
TaskInputs(p) ==
    IF p = "delphi"
    THEN {create_source_file("Main.pas", 1200), create_source_file("lib/Util.pas", 80)}
    ELSE {create_source_file("app/Models/User.php", 900),
          create_source_file("routes/web.php", 400)}

Task(command, root, p, parser_id, t, fs) ==
    [command |-> command, root |-> root, parser |-> p, parser_id |-> parser_id, tree |-> t,
     files |-> [i \in 1..Len(fs) |-> in_root(root, fs[i])],
     index |-> 0, result |-> ParseResult_new, returned |-> None]

TasksOn(root) ==
    {Task("detect", root, "none", None, t, <<>>) : t \in TaskTrees}
        \cup {Task("scan", root, "none", id, t, <<>>) : id \in {None, Some("delphi")},
                                                 t \in TaskTrees}
        \cup UNION {{Task("parse_project", root, p, None, IdleTree, fs) :
                        fs \in SeqsUpTo(TaskInputs(p), MaxTaskFiles)} : p \in Parsers}

\* One file of a name is unreadable below one root and readable below the
\* other.
TaskUnreadable ==
    {{}, {RootDir \o "Main.pas", RootDir \o "app/Models/User.php"},
     {OtherRootDir \o "Main.pas", OtherRootDir \o "routes/web.php"}}

ConcurrentInit ==
    /\ tasks \in {<<a, b>> : a \in TasksOn(TaskRoots[1]), b \in TasksOn(TaskRoots[2])}
    /\ registry = PARSER_REGISTRY
    /\ source_text = <<>>
    /\ unreadable \in TaskUnreadable
    /\ trace = <<>>
    /\ parser = "none"
    /\ files = <<>>
    /\ progress = FALSE
    /\ index = 0
    /\ pc = "idle"
    /\ returned = None
    /\ result = ParseResult_new
    /\ tree = IdleTree
    /\ reply = None
    /\ parsed = None
    /\ nodes = None
    /\ edges = None

concurrentIdleVars == <<parser, files, unreadable, progress, index, pc, result, returned,
                        tree, reply, parsed, nodes, edges, registry, source_text>>

\* scan_directory on a root: the SourceFiles carry that root's absolute paths.
scan_in(root, t, parser_id) ==
    LET r == scan_directory(t, parser_id)
    IN  IF r.ok THEN Ok({in_root(root, f) : f \in r.value}) ELSE r

\* One iteration of the parse_project loop on the task's own ParseResult.
parse_step(p, parse_result, file, unread) ==
    LET r == parse_file(p, file, unread)
    IN  IF r.ok THEN add_parsed_file(parse_result, r.value)
        ELSE add_error(parse_result, file.path, r.error)

TaskDetect(t) ==
    /\ tasks[t].command = "detect"
    /\ tasks[t].returned = None
    /\ tasks' = [tasks EXCEPT ![t].returned = Some(detect(tasks[t].tree))]
    /\ trace' = Append(trace, t)
    /\ UNCHANGED concurrentIdleVars

TaskScan(t) ==
    /\ tasks[t].command = "scan"
    /\ tasks[t].returned = None
    /\ tasks' = [tasks EXCEPT ![t].returned =
                    Some(scan_in(tasks[t].root, tasks[t].tree, tasks[t].parser_id))]
    /\ trace' = Append(trace, t)
    /\ UNCHANGED concurrentIdleVars

\* A task whose iteration writes to the ParseResult of the first task.
TaskParseFile_shared_result(t) ==
    /\ tasks[t].command = "parse_project"
    /\ tasks[t].returned = None
    /\ tasks[t].index < Len(tasks[t].files)
    /\ tasks' = [tasks EXCEPT
                    ![1].result = parse_step(tasks[t].parser, @,
                                             tasks[t].files[tasks[t].index + 1], unreadable),
                    ![t].index = tasks[t].index + 1]
    /\ trace' = Append(trace, t)
    /\ UNCHANGED concurrentIdleVars

TaskParseFile(t) ==
    /\ tasks[t].command = "parse_project"
    /\ tasks[t].returned = None
    /\ tasks[t].index < Len(tasks[t].files)
    /\ tasks' = [tasks EXCEPT
                    ![t].result = parse_step(tasks[t].parser, @,
                                             tasks[t].files[tasks[t].index + 1], unreadable),
                    ![t].index = @ + 1]
    /\ trace' = Append(trace, t)
    /\ UNCHANGED concurrentIdleVars

TaskReturn(t) ==
    /\ tasks[t].command = "parse_project"
    /\ tasks[t].returned = None
    /\ tasks[t].index = Len(tasks[t].files)
    /\ tasks' = [tasks EXCEPT ![t].returned = Some(Ok(tasks[t].result))]
    /\ trace' = Append(trace, t)
    /\ UNCHANGED concurrentIdleVars

ConcurrentNext ==
    \E t \in {1, 2} : TaskDetect(t) \/ TaskScan(t) \/ TaskParseFile(t) \/ TaskReturn(t)

ConcurrentSpec == ConcurrentInit /\ [][ConcurrentNext]_vars

(***************************************************************************)
(* SizeSpec: FileSpec, and a caller that applies with_size to the node     *)
(* generate_nodes pushed last.  `trace` holds the argument of the call.    *)
(***************************************************************************)
\* Arguments of with_size (a u8): both ends of the type, both ends of the
\* clamp range, the default size, and the first value above the range.
SizeArgs == {0, 1, 4, 12, 13, 255}

WithSize ==
    /\ nodes # None
    /\ \E size \in SizeArgs :
          /\ nodes' = Some([nodes.some EXCEPT ![Len(nodes.some)] = with_size(@, size)])
          /\ trace' = <<size>>
    /\ UNCHANGED <<parser, files, unreadable, progress, index, pc, returned,
                   tree, reply, tasks, registry, source_text, result, parsed, edges>>

SizeNext == AddParsedFile \/ BuildGraph \/ WithSize

SizeSpec == FileInit /\ [][SizeNext]_vars

(***************************************************************************)
(* PasParser::extract_uses (parsers/delphi/pas_parser.rs).  The text of a  *)
(* unit is a sequence of pieces, each with its length in bytes in the text *)
(* and in the text's to_lowercase(): Unicode lower-casing changes the      *)
(* UTF-8 length of some letters (U+0130 from 2 bytes to 3, U+212A from 3   *)
(* to 1), and of no ASCII letter.                                          *)
(***************************************************************************)
Piece(kind, items, bytes, lower_bytes) ==
    [kind |-> kind, items |-> items, bytes |-> bytes, lower_bytes |-> lower_bytes]

\* "Interface\n" and "Implementation\n".
InterfaceWord == Piece("interface", <<>>, Len("Interface") + 1, Len("interface") + 1)
ImplementationWord ==
    Piece("implementation", <<>>, Len("Implementation") + 1, Len("implementation") + 1)

\* The length of the items joined by ", ".
RECURSIVE joined_len(_, _)
joined_len(items, i) ==
    IF i > Len(items) THEN 0
    ELSE Len(items[i]) + (IF i < Len(items) THEN 2 ELSE 0) + joined_len(items, i + 1)

\* "uses <item>, <item>;\n": what uses_regex matches, its group 1 starting
\* after "uses ".
UsesClause(items) ==
    Piece("uses", items, Len("uses ") + joined_len(items, 1) + 2,
          Len("uses ") + joined_len(items, 1) + 2)

\* "{" followed by a number of copies of one letter and "}\n".
Comment(letters, letter_bytes, lower_letter_bytes) ==
    Piece("comment", <<>>, 3 + letters * letter_bytes, 3 + letters * lower_letter_bytes)

TextPieces ==
    {InterfaceWord, ImplementationWord,
     UsesClause(<<"SysUtils">>),
     UsesClause(<<"Unit1 in 'Unit1.pas'", "Vcl.Forms", "my_unit2">>),
     Comment(20, 1, 1), Comment(20, 2, 3), Comment(10, 3, 1)}

RECURSIVE byte_offset(_, _, _)
\* The offset of piece i in the text (lowered = FALSE) or in
\* text.to_lowercase() (lowered = TRUE).
byte_offset(text, i, lowered) ==
    IF i <= 1 THEN 0
    ELSE (IF lowered THEN text[i - 1].lower_bytes ELSE text[i - 1].bytes)
            + byte_offset(text, i - 1, lowered)

\* content.to_lowercase().find(word): an offset into the lower-cased copy.
find_in_lowercase(text, word) ==
    IF \E i \in 1..Len(text) : text[i].kind = word
    THEN Some(byte_offset(text, CHOOSE i \in 1..Len(text) :
                                    /\ text[i].kind = word
                                    /\ \A j \in 1..(i - 1) : text[j].kind # word,
                          TRUE))
    ELSE None

\* uses_match.start(): an offset into the text itself.
match_start(text, i) == byte_offset(text, i, FALSE) + Len("uses ")

\* unit.split_whitespace().next().unwrap_or("")
first_token(item) ==
    IF \E i \in 1..Len(item) : CharAt(item, i) = " "
    THEN SubSeq(item, 1, (CHOOSE i \in 1..Len(item) :
                             /\ CharAt(item, i) = " "
                             /\ \A j \in 1..(i - 1) : CharAt(item, j) # " ") - 1)
    ELSE item

\* !unit_name.is_empty() && all chars alphanumeric or '_'
is_unit_name(unit_name) ==
    /\ Len(unit_name) > 0
    /\ \A i \in 1..Len(unit_name) :
          contains(UpperChars \o LowerChars \o "0123456789_", CharAt(unit_name, i))

Dependency_in_section(target, is_interface, is_implementation) ==
    [target |-> target, alias |-> None,
     is_interface |-> is_interface, is_implementation |-> is_implementation]

RECURSIVE uses_items(_, _, _, _)
\* The dependencies of the items of one uses list, from item k on.
uses_items(items, k, is_interface, is_implementation) ==
    IF k > Len(items) THEN <<>>
    ELSE (IF is_unit_name(first_token(items[k]))
          THEN <<Dependency_in_section(first_token(items[k]), is_interface,
                                       is_implementation)>>
          ELSE <<>>)
            \o uses_items(items, k + 1, is_interface, is_implementation)

\* An is_interface that does not look at the implementation offset.
section_is_interface_open(interface_pos, implementation_pos, match_pos) ==
    interface_pos # None /\ match_pos > interface_pos.some

section_is_interface(interface_pos, implementation_pos, match_pos) ==
    IF interface_pos # None /\ implementation_pos # None
    THEN match_pos > interface_pos.some /\ match_pos < implementation_pos.some
    ELSE IF interface_pos # None THEN match_pos > interface_pos.some
    ELSE FALSE

section_is_implementation(implementation_pos, match_pos) ==
    IF implementation_pos # None THEN match_pos > implementation_pos.some ELSE FALSE

extract_uses_at(text, interface_pos, implementation_pos) ==
    Flatten([i \in 1..Len(text) |->
        IF text[i].kind = "uses"
        THEN uses_items(text[i].items, 1,
                        section_is_interface(interface_pos, implementation_pos,
                                             match_start(text, i)),
                        section_is_implementation(implementation_pos,
                                                  match_start(text, i)))
        ELSE <<>>])

extract_uses(text, parsed_file) ==
    [parsed_file EXCEPT !.dependencies =
        @ \o extract_uses_at(text, find_in_lowercase(text, "interface"),
                             find_in_lowercase(text, "implementation"))]

(***************************************************************************)
(* UsesSpec: extract_uses runs on the text of Main.pas.                    *)
(***************************************************************************)
UsesInit ==
    /\ parser = "delphi"
    /\ GraphIdle
    /\ result = ParseResult_new
    /\ parsed = None
    /\ nodes = None
    /\ edges = None
    /\ NoTasks
    /\ source_text \in SeqsUpTo(TextPieces, MaxPieces)

ExtractUses ==
    /\ parsed = None
    /\ parsed' = Some(extract_uses(source_text,
                                   ParsedFile_new(create_source_file("Main.pas", 1200))))
    /\ UNCHANGED <<parser, files, unreadable, progress, index, pc, result, returned,
                   trace, tree, reply, nodes, edges, tasks, registry, source_text>>

UsesNext == ExtractUses

UsesSpec == UsesInit /\ [][UsesNext]_vars

(***************************************************************************)
(* PipelineSpec: the parse_project loop over Laravel files whose text is   *)
(* known (SourceOf), followed by build_graph on the returned ParseResult.  *)
(***************************************************************************)
\* A model and a controller in their conventional directories, a model and
\* a controller outside of them, and a view.
PipelineInputs ==
    {create_source_file(path, 900) :
        path \in {"app/Models/User.php", "app/Domain/Post.php",
                  "app/Http/Controllers/UserController.php", "app/Admin/Dashboard.php",
                  "resources/views/home.blade.php"}}

PipelineInit ==
    /\ parser = "laravel"
    /\ files \in SeqsUpTo(PipelineInputs, MaxParsedFiles)
    /\ unreadable \in SUBSET {RootDir \o "app/Models/User.php"}
    /\ progress \in BOOLEAN
    /\ index = 0
    /\ pc = "for"
    /\ result = ParseResult_new
    /\ returned = None
    /\ trace = <<>>
    /\ tree = IdleTree
    /\ reply = None
    /\ parsed = None
    /\ nodes = None
    /\ edges = None
    /\ NoTasks
    /\ source_text = <<>>

\* build_graph on the ParseResult parse_project returned.
BuildReturnedGraph ==
    /\ pc = "done"
    /\ BuildGraph

PipelineNext == Next \/ BuildReturnedGraph

PipelineSpec == PipelineInit /\ [][PipelineNext]_vars

(***************************************************************************)
(* PairSpec: detect_file_pairs is called on a list of source files.        *)
(* `files` is the list and `reply` what the call returned.                 *)
(***************************************************************************)
\* Units and forms in several directories, names differing in ASCII case,
\* and a project file that is neither.
PairInputs ==
    {create_source_file("Main.pas", 1000),
     create_source_file("forms/Main.dfm", 300),
     create_source_file("mobile/ui/MAIN.fmx", 300),
     create_source_file("lib/main.PAS", 80),
     create_source_file("Main.dpr", 50)}

PairInit ==
    /\ parser \in Parsers
    /\ files \in SeqsUpTo(PairInputs, MaxFiles)
    /\ unreadable = {}
    /\ progress = FALSE
    /\ index = 0
    /\ pc = "idle"
    /\ result = ParseResult_new
    /\ returned = None
    /\ trace = <<>>
    /\ tree = IdleTree
    /\ reply = None
    /\ parsed = None
    /\ nodes = None
    /\ edges = None
    /\ NoTasks
    /\ source_text = <<>>

\* parser.detect_file_pairs(&files)
DetectFilePairs ==
    /\ reply = None
    /\ reply' = Some([call |-> "detect_file_pairs",
                      pairs |-> detect_file_pairs(parser, files)])
    /\ UNCHANGED <<parser, files, unreadable, progress, index, pc, result, returned,
                   trace, tree, parsed, nodes, edges, tasks, registry, source_text>>

PairNext == DetectFilePairs

PairSpec == PairInit /\ [][PairNext]_vars

\* The loop is one sequential task: a step that can be taken is taken.
FairSpec == Init /\ [][Next]_vars /\ WF_vars(Next)

(***************************************************************************)
(* Claims about parse_project.                                             *)
(***************************************************************************)
\* The positions of the input whose file cannot be read.
FailingPositions == {i \in 1..Len(files) : files[i].absolute_path \in unreadable}

ReadablePositions == {i \in 1..Len(files) : files[i].absolute_path \notin unreadable}

ParsedPaths(r) == [j \in 1..Len(r.files) |-> r.files[j].source.path]

Attempts == SelectSeq(trace, LAMBDA e : e.call = "parse_file")

\* C2: parse_project runs to completion.  It always returns, and when it
\* has returned it has made exactly one parse attempt per input file, in
\* input order, the value is Ok, files holds the readable inputs in input
\* order and errors has a key for every input that failed.
C2_Final ==
    pc = "done" =>
        /\ returned.ok
        /\ index = Len(files)
        /\ Attempts = [i \in 1..Len(files) |-> ParseEvent(i - 1, files[i])]
        /\ [j \in 1..Len(returned.value.files) |-> returned.value.files[j].source]
             = SelectSeq(files, LAMBDA f : f.absolute_path \notin unreadable)
        /\ HashMap_keys(returned.value.errors) = {files[i].path : i \in FailingPositions}
        /\ returned.value.total_processed = Len(files)

C2_RunsToCompletion == [](C2_Final) /\ <>(pc = "done")

\* Every file fails and the loop still visits all of them.
C2_Witness ==
    /\ pc = "done"
    /\ Len(files) = 3
    /\ FailingPositions = {1, 2, 3}
    /\ Len(Attempts) = 3
    /\ returned.ok /\ returned.value.files = <<>>

\* C3: progress ordering.  With a callback supplied, the calls observed are
\* notification 0, attempt 0, notification 1, attempt 1, ...: notification i
\* carries phase "parsing", current = i, total = N and the path of file i,
\* comes after attempt i-1 and before attempt i, and when parse_project has
\* returned there has been exactly one notification per file, whatever
\* failed before it.
C3_ProgressOrdering ==
    progress =>
        /\ \A k \in 1..Len(trace) :
              IF k % 2 = 1
              THEN trace[k] = [call |-> "progress", phase |-> "parsing",
                               current |-> (k - 1) \div 2, total |-> Len(files),
                               current_file |-> files[(k + 1) \div 2].path]
              ELSE trace[k] = ParseEvent(k \div 2 - 1, files[k \div 2])
        /\ pc = "done" => Len(trace) = 2 * Len(files)

C3_Witness ==
    /\ progress
    /\ pc = "done"
    /\ Len(files) = 3
    /\ 1 \in FailingPositions
    /\ Len(SelectSeq(trace, LAMBDA e : e.call = "progress")) = 3

(***************************************************************************)
(* Claims about detect and scan (DetectSpec).                              *)
(***************************************************************************)
IsDetectReply == reply # None /\ reply.call = "detect"

IsScanReply == reply # None /\ reply.call = "scan"

ScoredTypes == {"Delphi", "Laravel", "NodeJs", "Php"}

\* The confidence score the scorer of a project type gives a tree.
ScoreOf(t, project_type) ==
    CASE project_type = "Delphi" -> detect_delphi(t)[1]
      [] project_type = "Laravel" -> detect_laravel(t)[1]
      [] project_type = "NodeJs" -> detect_nodejs(t)[1]
      [] project_type = "Php" -> detect_php(t)[1]

SecondaryTypeNames(r) == {r.secondary_types[i][1] : i \in 1..Len(r.secondary_types)}

\* C4 as stated: is_multi_language is true exactly when secondary_types is
\* non-empty, and exactly when some project type other than the winner has
\* a confidence score above 0.3.
C4_Original ==
    IsDetectReply =>
        LET r == reply.value
        IN  /\ r.is_multi_language <=> r.secondary_types # <<>>
            /\ r.secondary_types # <<>> <=>
                 \E ty \in ScoredTypes : ty # r.project_type /\ ScoreOf(tree, ty) > F32_0_3

\* C4 (amended): is_multi_language is true exactly when secondary_types is
\* non-empty, and exactly when some candidate other than the winner has a
\* score above 0.3, generic PHP being a candidate only while the Laravel
\* score is below 0.5.
C4_MultiLanguageConsistency ==
    IsDetectReply =>
        LET r == reply.value
        IN  /\ r.is_multi_language <=> r.secondary_types # <<>>
            /\ r.secondary_types # <<>> <=>
                 \E ty \in ScoredTypes :
                    /\ ty # r.project_type
                    /\ ScoreOf(tree, ty) > F32_0_3
                    /\ ty = "Php" => ScoreOf(tree, "Laravel") < F32_0_5
            /\ SecondaryTypeNames(r) =
                 {ty \in ScoredTypes :
                    /\ ty # r.project_type
                    /\ ScoreOf(tree, ty) > F32_0_3
                    /\ ty = "Php" => ScoreOf(tree, "Laravel") < F32_0_5}

\* A Laravel tree with a Delphi secondary, whose PHP score is above 0.3 too.
C4_Witness ==
    /\ IsDetectReply
    /\ reply.value.project_type = "Laravel"
    /\ reply.value.is_multi_language
    /\ SecondaryTypeNames(reply.value) = {"Delphi"}
    /\ ScoreOf(tree, "Php") > F32_0_3

\* C5 as stated: adding a Delphi marker file never lowers the Delphi score,
\* and changes the winning type only if the new Delphi score is strictly
\* greater than the score of the previous winner.
C5_Original ==
    [][AddDelphiMarker =>
          /\ ScoreOf(tree', "Delphi") >= ScoreOf(tree, "Delphi")
          /\ detect(tree').project_type # detect(tree).project_type =>
                ScoreOf(tree', "Delphi") > detect(tree).confidence]_vars

\* C5 (amended): adding a Delphi marker file never lowers the Delphi score,
\* and changes the winning type only if the new Delphi score is at least
\* the score of the previous winner, the new winner then being Delphi (on
\* equal scores Delphi, scored first, wins).
C5_DetectionMonotonicity ==
    [][AddDelphiMarker =>
          /\ ScoreOf(tree', "Delphi") >= ScoreOf(tree, "Delphi")
          /\ detect(tree').project_type # detect(tree).project_type =>
                /\ detect(tree').project_type = "Delphi"
                /\ ScoreOf(tree', "Delphi") >= detect(tree).confidence
                /\ ScoreOf(tree', "Delphi") > ScoreOf(tree, "Delphi")]_vars

\* Delphi markers were added up to a tie with Node.js, and Delphi wins it.
C5_Witness ==
    /\ IsDetectReply
    /\ reply.value.project_type = "Delphi"
    /\ ScoreOf(tree, "NodeJs") = ScoreOf(tree, "Delphi")
    /\ Cardinality(tree.entries \cap DelphiMarkers) >= 2

CandidateTypes(t) == {candidates(t)[i][1] : i \in 1..Len(candidates(t))}

\* C6: generic PHP and Laravel.  When the Laravel score is at least 0.5, Php
\* is no candidate, not the detected type and in no secondary entry,
\* whatever the PHP score; when the Laravel score is below 0.5 and the PHP
\* score positive, Php is a candidate: it is the detected type, or is a
\* secondary type when its score is above 0.3.
C6_PhpExcludedByLaravel ==
    IsDetectReply =>
        LET r == reply.value
        IN  /\ ScoreOf(tree, "Laravel") >= F32_0_5 =>
                 /\ "Php" \notin CandidateTypes(tree)
                 /\ r.project_type # "Php"
                 /\ "Php" \notin SecondaryTypeNames(r)
            /\ (ScoreOf(tree, "Laravel") < F32_0_5 /\ ScoreOf(tree, "Php") > F32_0_0) =>
                 /\ "Php" \in CandidateTypes(tree)
                 /\ \/ r.project_type = "Php"
                    \/ "Php" \in SecondaryTypeNames(r)
                    \/ ScoreOf(tree, "Php") <= F32_0_3

\* Laravel wins although generic PHP scores higher.
C6_Witness ==
    /\ IsDetectReply
    /\ ScoreOf(tree, "Laravel") >= F32_0_5
    /\ ScoreOf(tree, "Php") > ScoreOf(tree, "Laravel")
    /\ reply.value.project_type = "Laravel"

\* C7: detect is total and bounded.  Whatever the root (missing, unreadable,
\* empty or filled) detect returns a DetectionResult; when no type scores
\* above 0 it is Unknown with confidence 0 and no secondary types; and the
\* confidence and every secondary confidence lie in [0, 1].
C7_DetectTotalAndBounded ==
    IsDetectReply =>
        LET r == reply.value
        IN  /\ DOMAIN r = DOMAIN DetectionResult_default
            /\ r.project_type \in ScoredTypes \cup {"Unknown"}
            /\ (\A ty \in ScoredTypes : ScoreOf(tree, ty) = F32_0_0) =>
                 /\ r.project_type = "Unknown"
                 /\ r.confidence = F32_0_0
                 /\ r.secondary_types = <<>>
                 /\ ~r.is_multi_language
            /\ F32_0_0 <= r.confidence /\ r.confidence <= F32_1_0
            /\ \A i \in 1..Len(r.secondary_types) :
                  /\ F32_0_0 <= r.secondary_types[i][2]
                  /\ r.secondary_types[i][2] <= F32_1_0

\* An unreadable root that holds Delphi files: no evidence, Unknown.
C7_Witness ==
    /\ IsDetectReply
    /\ tree.root = "unreadable"
    /\ Cardinality(tree.entries \cap DelphiMarkers) >= 3
    /\ reply.value.project_type = "Unknown"
    /\ reply.value.confidence = F32_0_0

F32_0_85 == f32_of_ratio(17, 20)

ScenarioA == {File("artisan", 1600), Dir("app/Http/Controllers")}

OtherLaravelDirs == {Dir(LaravelDirs[i]) : i \in 2..4}

\* C8: scenario A.  For a tree whose only markers are a composer.json with
\* "laravel/framework", artisan and app/Http/Controllers, detect returns
\* Laravel, parser_id "laravel", confidence 0.85 and is_multi_language
\* false; with other Laravel marker directories added the answer is the
\* same but for the confidence, which each of them raises and which stays
\* at most 1.0.
C8_ScenarioA ==
    ( /\ IsDetectReply
      /\ tree.composer = "laravel"
      /\ ScenarioA \subseteq tree.entries
      /\ tree.entries \ ScenarioA \subseteq OtherLaravelDirs ) =>
        LET r == reply.value
            more == tree.entries \ ScenarioA
        IN  /\ r.project_type = "Laravel"
            /\ r.parser_id = "laravel"
            /\ ~r.is_multi_language
            /\ more = {} => r.confidence = F32_0_85
            /\ more # {} => r.confidence > F32_0_85
            /\ r.confidence <= F32_1_0
            /\ \A e \in more :
                  detect([tree EXCEPT !.entries = @ \ {e}]).confidence < r.confidence

C8_Witness ==
    /\ IsDetectReply
    /\ tree.composer = "laravel"
    /\ tree.entries = ScenarioA
    /\ reply.value.confidence = F32_0_85
    /\ reply.value.parser_id = "laravel"

RecognisedParserIds == {"delphi", "laravel"}

\* What scan is claimed to return for an effective parser id.
ScanExpected(t, id) ==
    CASE id = "delphi" -> DelphiParser_scan_files(t)
      [] id = "laravel" -> LaravelParser_scan_files(t)
      [] OTHER -> Err("Unknown parser: " \o id)

\* C9 as stated: scan called without a parser id uses detect(root).parser_id;
\* an effective id that is not recognised gives the error "Unknown parser:
\* <id>" and no file list, a recognised one that parser's scan_files result.
C9_Original ==
    IsScanReply =>
        LET id == IF reply.parser_id = None THEN detect(tree).parser_id
                  ELSE reply.parser_id.some
        IN  /\ reply.value = ScanExpected(tree, id)
            /\ id \notin RecognisedParserIds => ~reply.value.ok

\* C9 (amended): the same for a root path that exists; for a root path that
\* does not exist scan returns the error "Path does not exist", whatever
\* the parser id.
C9_ScanDispatch ==
    IsScanReply =>
        LET id == IF reply.parser_id = None THEN detect(tree).parser_id
                  ELSE reply.parser_id.some
        IN  IF tree.root = "missing"
            THEN reply.value = Err("Path does not exist")
            ELSE /\ reply.value = ScanExpected(tree, id)
                 /\ id \notin RecognisedParserIds =>
                       /\ ~reply.value.ok
                       /\ reply.value.error = "Unknown parser: " \o id

\* scan without a parser id on a tree detected as Laravel finds its files.
C9_Witness ==
    /\ IsScanReply
    /\ reply.parser_id = None
    /\ tree.root = "ok"
    /\ detect(tree).parser_id = "laravel"
    /\ reply.value.ok
    /\ reply.value.value # {}

(***************************************************************************)
(* Claims about generate_nodes (GraphSpec).                                *)
(***************************************************************************)
QualifyingSymbolTypes == {"Class", "Interface", "Trait", "Method", "Function"}

\* The ids the claim asks for, in emission order: per ParsedFile the id of
\* its path, then one id per qualifying symbol.
RECURSIVE ExpectedSymbolIds(_, _)
ExpectedSymbolIds(parsed_file, i) ==
    IF i > Len(parsed_file.symbols) THEN <<>>
    ELSE LET symbol == parsed_file.symbols[i]
             rest == ExpectedSymbolIds(parsed_file, i + 1)
         IN  IF symbol.symbol_type \in QualifyingSymbolTypes
             THEN <<md5_hash(parsed_file.source.path \o "::" \o symbol.name)>> \o rest
             ELSE rest

RECURSIVE ExpectedNodeIds(_, _)
ExpectedNodeIds(parse_result, i) ==
    IF i > Len(parse_result.files) THEN <<>>
    ELSE <<md5_hash(parse_result.files[i].source.path)>>
            \o ExpectedSymbolIds(parse_result.files[i], 1)
            \o ExpectedNodeIds(parse_result, i + 1)

NodeIds(ns) == [i \in 1..Len(ns) |-> ns[i].id]

\* C10: for both parsers and every ParseResult, generate_nodes emits
\* exactly one file node per ParsedFile, with id = hash(relative path),
\* plus exactly one node for each symbol whose kind is class, interface,
\* trait, method or function, with id = hash(relative path + "::" + symbol
\* name), and no node for a symbol of any other kind.
C10_NodeCardinality ==
    nodes # None => NodeIds(nodes.some) = ExpectedNodeIds(result, 1)

\* The same statement for the Laravel parser alone.
C10_LaravelNodeCardinality ==
    (nodes # None /\ parser = "laravel")
        => NodeIds(nodes.some) = ExpectedNodeIds(result, 1)

(***************************************************************************)
(* Claims about one file's nodes (FileSpec).                               *)
(***************************************************************************)
\* The file of the ParseResult and its file node, the first node emitted.
TheFile == result.files[1]

FileNode == nodes.some[1]

HasFileNode == nodes # None /\ Len(result.files) = 1 /\ Len(nodes.some) >= 1

\* The byte-count breakpoints as the claim states them.
SizeByBreakpoints(size_bytes) ==
    CASE size_bytes <= 1000 -> 2
      [] size_bytes > 1000 /\ size_bytes <= 5000 -> 4
      [] size_bytes > 5000 /\ size_bytes <= 20000 -> 6
      [] size_bytes > 20000 /\ size_bytes <= 50000 -> 8
      [] OTHER -> 10

\* The size LaravelParser gives a file node, by the node's type.
LaravelSizeByNodeType(node_type) ==
    CASE node_type = "Controller" -> 8
      [] node_type \in {"Model", Custom("service"), Custom("repository")} -> 7
      [] node_type \in {"Route", "Component", "Middleware", Custom("provider"),
                        Custom("action")} -> 6
      [] node_type \in {Custom("rule"), Custom("scope"), Custom("cast"), Custom("dto"),
                        Custom("exception"), Custom("enum"), "ConfigFile",
                        Custom("seeder"), Custom("factory"), Custom("test")} -> 4
      [] node_type = "SourceFile" -> 3
      [] OTHER -> 5

\* C11 as stated: with either parser the file node's size follows from the
\* file's size_bytes by the breakpoints <= 1000 -> 2, <= 5000 -> 4,
\* <= 20000 -> 6, <= 50000 -> 8, larger -> 10.
C11_Original ==
    HasFileNode => FileNode.size = SizeByBreakpoints(TheFile.source.size_bytes)

\* C11 (amended): the Delphi file node's size follows from size_bytes by
\* the breakpoints; the Laravel file node's size follows from the kind of
\* the file alone (8 for a controller, 7 for a model, service or
\* repository, ... 3 for generic PHP) and not from its size_bytes.
C11_FileNodeSizing ==
    HasFileNode =>
        IF parser = "delphi"
        THEN FileNode.size = SizeByBreakpoints(TheFile.source.size_bytes)
        ELSE FileNode.size = LaravelSizeByNodeType(FileNode.node_type)

\* A Delphi file just above the last breakpoint, and its node of size 10.
C11_Witness ==
    /\ HasFileNode
    /\ parser = "delphi"
    /\ TheFile.source.size_bytes = 50001
    /\ FileNode.size = 10

(***************************************************************************)
(* Claims about the edges of a graph (GraphSpec).                          *)
(***************************************************************************)
HasGraph == nodes # None /\ edges # None

\* A dependency of a parsed file that names no node of the graph.
UnresolvedDependency(parsed_file) ==
    \E k \in 1..Len(parsed_file.dependencies) :
        \A i \in 1..Len(nodes.some) :
            nodes.some[i].name # rsplit_backslash(parsed_file.dependencies[k].target)

\* C12: in every graph the Laravel parser builds, the source and the target
\* of each edge are ids of nodes of the graph's node list; a reference whose
\* target is no node gives no edge.
C12_NoDanglingEdges ==
    (HasGraph /\ parser = "laravel")
        => \A k \in 1..Len(edges.some) :
              /\ edges.some[k].source \in SeqToSet(NodeIds(nodes.some))
              /\ edges.some[k].target \in SeqToSet(NodeIds(nodes.some))

\* A Laravel graph with an edge out of a file that also has a use statement
\* naming no node.
C12_Witness ==
    /\ HasGraph
    /\ parser = "laravel"
    /\ \E i \in 1..Len(result.files) :
          /\ UnresolvedDependency(result.files[i])
          /\ \E k \in 1..Len(edges.some) :
                edges.some[k].source = generate_id(result.files[i].source.path)

\* The positions of the Uses edges from one id to another, and the
\* positions <<file, dependency>> of the dependencies that ask for one.
UsesEdgesAt(source, target) ==
    {k \in 1..Len(edges.some) :
        /\ edges.some[k].edge_type = "Uses"
        /\ edges.some[k].source = source
        /\ edges.some[k].target = target}

DependenciesAt(source, target) ==
    {ik \in (1..Len(result.files)) \X (1..MaxSymbols) :
        /\ ik[2] <= Len(result.files[ik[1]].dependencies)
        /\ md5_hash(result.files[ik[1]].source.path) = source
        /\ md5_hash(result.files[ik[1]].dependencies[ik[2]].target) = target}

\* C13: the Delphi parser emits exactly one Uses edge for every dependency
\* of every parsed file, from the id of the file to the hash of the raw
\* dependency string, whether or not a node has that id.
C13_DelphiUsesEdges ==
    (HasGraph /\ parser = "delphi")
        => /\ \A i \in 1..Len(result.files) :
                 \A k \in 1..Len(result.files[i].dependencies) :
                    LET source == md5_hash(result.files[i].source.path)
                        target == md5_hash(result.files[i].dependencies[k].target)
                    IN  Cardinality(UsesEdgesAt(source, target))
                            = Cardinality(DependenciesAt(source, target))
           /\ Cardinality({k \in 1..Len(edges.some) : edges.some[k].edge_type = "Uses"})
                 = Cardinality({ik \in (1..Len(result.files)) \X (1..MaxSymbols) :
                                  ik[2] <= Len(result.files[ik[1]].dependencies)})

\* A Delphi graph with a Uses edge whose target is the id of no node.
C13_Witness ==
    /\ HasGraph
    /\ parser = "delphi"
    /\ \E k \in 1..Len(edges.some) :
          /\ edges.some[k].edge_type = "Uses"
          /\ edges.some[k].target = md5_hash("SysUtils")
          /\ edges.some[k].target \notin SeqToSet(NodeIds(nodes.some))

\* The source files of the ParseResult, and the pairs detected among them.
Sources == [i \in 1..Len(result.files) |-> result.files[i].source]

FilePairEdges == SelectSeq(edges.some, LAMBDA e : e.edge_type = "FilePair")

IsFormFile(f) == to_lowercase(f.extension) \in {"dfm", "fmx"}

\* A list that holds Main.pas and Main.dfm of the root directory, and
\* nothing else.
MainPairOnly ==
    /\ Len(result.files) = 2
    /\ {result.files[1].source.path, result.files[2].source.path}
          = {"Main.pas", "Main.dfm"}

\* C14: for Delphi, Main.pas and Main.dfm in one directory give exactly one
\* pair (path of the .pas, path of the form), extensions and stems being
\* compared without regard to ASCII case; a .pas file with no form file of
\* the same stem is in no pair; the Laravel parser detects no pair at all.
C14_FilePairs ==
    HasGraph =>
        LET pairs == detect_file_pairs(parser, Sources)
        IN  /\ parser = "laravel" => pairs = <<>> /\ FilePairEdges = <<>>
            /\ parser = "delphi" =>
                /\ MainPairOnly =>
                      /\ pairs = <<<<"Main.pas", "Main.dfm">>>>
                      /\ Len(FilePairEdges) = 1
                      /\ FilePairEdges[1].source = md5_hash("Main.pas")
                      /\ FilePairEdges[1].target = md5_hash("Main.dfm")
                /\ \A i \in 1..Len(Sources) :
                      (/\ to_lowercase(Sources[i].extension) = "pas"
                       /\ \A j \in 1..Len(Sources) :
                             IsFormFile(Sources[j]) =>
                                to_lowercase(file_stem(Sources[j].name))
                                   # to_lowercase(file_stem(Sources[i].name)))
                      => /\ \A k \in 1..Len(pairs) : pairs[k][1] # Sources[i].path
                         /\ \A k \in 1..Len(FilePairEdges) :
                               FilePairEdges[k].source # md5_hash(Sources[i].path)

\* A Delphi graph of Main.pas and Main.dfm, with its one pair.
C14_Witness ==
    /\ HasGraph
    /\ parser = "delphi"
    /\ MainPairOnly
    /\ Len(FilePairEdges) = 1

\* A Delphi graph in which a unit with no form stands next to a form.
C14_WitnessNoPair ==
    /\ HasGraph
    /\ parser = "delphi"
    /\ Len(result.files) = 2
    /\ {result.files[1].source.path, result.files[2].source.path}
          = {"lib/Util.pas", "Main.dfm"}
    /\ FilePairEdges = <<>>

\* The node of a file carries the file's name; the node of a symbol an
\* identifier.
IsFileNode(node) == node.name = file_name(node.file_path.some)

\* What a node's id is to depend on: the relative path of a file node, the
\* pair of relative path and symbol name of a symbol node.
IdentityOf(node) ==
    IF IsFileNode(node) THEN <<node.file_path.some>>
    ELSE <<node.file_path.some, node.name>>

\* Equal identities have equal ids and distinct identities of one kind have
\* distinct ids.
StableIds ==
    HasGraph =>
        \A i, j \in 1..Len(nodes.some) :
            IsFileNode(nodes.some[i]) = IsFileNode(nodes.some[j])
               => ((IdentityOf(nodes.some[i]) = IdentityOf(nodes.some[j]))
                      <=> (nodes.some[i].id = nodes.some[j].id))

\* A build_graph call on the ParseResult of an earlier call returns the
\* graph the earlier call returned.
SameGraphAgain ==
    (nodes # None /\ nodes' # None /\ result' = result /\ parser' = parser)
        => (nodes' = nodes /\ edges' = edges)

C18_SameDetectionAgain ==
    [][(/\ reply # None
        /\ reply.call = "detect"
        /\ reply' # None
        /\ reply'.call = "detect"
        /\ tree' = tree) => reply' = reply]_vars

(***************************************************************************)
(* Claims about the classification of a Laravel file (FileSpec).           *)
(***************************************************************************)
\* Directory rules of the path table, with the node type of their kind.
DirectoryRules ==
    {<<"/services/", Custom("service")>>, <<"/middleware/", "Middleware">>,
     <<"/models/", "Model">>}

\* C15: a Laravel file whose path matches a directory rule of the path
\* table is classified by that rule, whatever suffix its file name or its
\* class names carry.
C15_PathOutranksNaming ==
    (HasFileNode /\ parser = "laravel")
        => \A rule \in DirectoryRules :
              contains(to_lowercase(TheFile.source.path), rule[1])
                 => FileNode.node_type = rule[2]

\* The cases in which the directory rule does decide although a name
\* carries another convention: a file name ending in Service under
\* /models/, or a class named ...Controller in a file under /services/.
C15_DirectoryDecides ==
    \/ /\ HasFileNode
       /\ parser = "laravel"
       /\ TheFile.source.path = "app/Models/UserService.php"
       /\ FileNode.node_type = "Model"
    \/ /\ HasFileNode
       /\ parser = "laravel"
       /\ TheFile.source.path = "app/Services/OrderService.php"
       /\ \E i \in 1..Len(TheFile.symbols) : TheFile.symbols[i].name = "UserController"
       /\ FileNode.node_type = Custom("service")

\* What the extends table, the implements table and the suffix chain say of
\* a class, NoMatch when they say nothing.
ByExtends(symbol) ==
    IF symbol.extends = None THEN NoMatch
    ELSE extends_table(rsplit_backslash(symbol.extends.some))

ByImplements(symbol) ==
    IF symbol.implements = None THEN NoMatch
    ELSE implements_match(symbol, symbol.implements.some, 1)

BySuffix(symbol) == suffix_table(symbol.name)

\* The answers of one table over the classes of the file, in their order.
ClassAnswers(Table(_)) ==
    SelectSeq([i \in 1..Len(TheFile.symbols) |->
                 IF TheFile.symbols[i].symbol_type = "Class"
                 THEN Table(TheFile.symbols[i]) ELSE NoMatch],
              LAMBDA m : m # NoMatch)

PathKind == FileTypeOfPath[TheFile.source.path]

\* C16: only a file of the generic path kind is refined; its kind is then
\* the match of some class's parent in the extends table if there is one,
\* else an implements-table match if there is one, else a class-name
\* suffix match if there is one.
C16_RefinementPriority ==
    (HasFileNode /\ parser = "laravel")
        => IF PathKind # "Php" THEN FileNode.node_type = laravel_node_type(PathKind)
           ELSE IF ClassAnswers(ByExtends) # <<>>
           THEN FileNode.node_type = laravel_node_type(ClassAnswers(ByExtends)[1])
           ELSE IF ClassAnswers(ByImplements) # <<>>
           THEN FileNode.node_type = laravel_node_type(ClassAnswers(ByImplements)[1])
           ELSE IF ClassAnswers(BySuffix) # <<>>
           THEN FileNode.node_type = laravel_node_type(ClassAnswers(BySuffix)[1])
           ELSE TRUE

\* The same priority for the files that hold at most one class.
C16_SingleClassPriority ==
    (/\ HasFileNode
     /\ Cardinality({i \in 1..Len(TheFile.symbols) :
                       TheFile.symbols[i].symbol_type = "Class"}) <= 1)
        => C16_RefinementPriority

\* A file of an unmapped directory whose only class extends Model is
\* classified Model.
C16_ExtendsModel ==
    /\ HasFileNode
    /\ parser = "laravel"
    /\ TheFile.source.path = "app/Billing/Invoice.php"
    /\ TheFile.symbols
          = <<ClassSymbol("Account", Some("Illuminate\\Database\\Eloquent\\Model"), None)>>
    /\ FileNode.node_type = "Model"

(***************************************************************************)
(* Claims about parse_file (ParseFileSpec).                                *)
(***************************************************************************)
\* parse_file has just answered for the file with this relative path.
Answered(path) == reply # None /\ Len(files) = 1 /\ files[1].path = path

\* The one route fact of the scenario.
UsersIndexFact ==
    JsonObject([method |-> JsonString("GET"),
                uri |-> JsonString("/users"),
                action |-> JsonObject([type |-> JsonString("Controller"),
                                       controller |-> JsonString("UserController"),
                                       method |-> JsonString("index")]),
                name |-> JsonString("users.index"),
                middleware |-> JsonArray(<<>>)])

\* The reply is a ParsedFile whose routes are the one fact of the scenario.
HasUsersIndexRoute ==
    /\ reply.some.ok
    /\ "routes" \in DOMAIN reply.some.value.metadata
    /\ reply.some.value.metadata["routes"] = JsonArray(<<UsersIndexFact>>)

\* C17: parsing the readable file routes/web.php, whose text is
\* Route::get('/users', [UserController::class, 'index'])->name('users.index');
\* with the Laravel parser goes to the route extractor and gives exactly
\* one route fact: GET /users, action Controller UserController index,
\* name users.index, no middleware.
C17_ScenarioB ==
    (/\ parser = "laravel"
     /\ Answered("routes/web.php")
     /\ files[1].absolute_path \notin unreadable)
        => HasUsersIndexRoute

\* The same text in a routes directory below another directory does go to
\* the route extractor and gives the fact.
C17_NestedRoutesDirectory ==
    /\ parser = "laravel"
    /\ Answered("app/routes/web.php")
    /\ files[1].absolute_path \notin unreadable
    /\ HasUsersIndexRoute

(***************************************************************************)
(* Claims about invocations running side by side (ConcurrentSpec).         *)
(***************************************************************************)
\* What parse_project returns when it runs alone: the loop over the files
\* in order, from files[i] on, starting with the ParseResult acc.
RECURSIVE parse_project_alone(_, _, _, _, _)
parse_project_alone(p, fs, unread, i, acc) ==
    IF i > Len(fs) THEN Ok(acc)
    ELSE parse_project_alone(p, fs, unread, i + 1, parse_step(p, acc, fs[i], unread))

\* What the invocation of a task returns when nothing runs beside it.
Alone(task) ==
    CASE task.command = "detect" -> detect(task.tree)
      [] task.command = "scan" -> scan_in(task.root, task.tree, task.parser_id)
      [] OTHER -> parse_project_alone(task.parser, task.files, unreadable, 1,
                                      ParseResult_new)

ResultsAsAlone ==
    \A t \in 1..Len(tasks) :
        tasks[t].returned # None => tasks[t].returned.some = Alone(tasks[t])

\* C19: two invocations of detect, scan or parse_project on different root
\* directories, their steps interleaved in any order, each return what
\* they return when run alone; the parser registry, the one value they
\* share, is never modified.
C19_ConcurrentRoots == []ResultsAsAlone /\ [][registry' = registry]_vars

\* Two parse_project invocations have returned after taking turns: a step
\* of the first, then one of the second, then one of the first again; both
\* went over the file of one name, which only one of them could read.
C19_Witness ==
    /\ Len(tasks) = 2
    /\ tasks[1].command = "parse_project" /\ tasks[1].returned # None
    /\ tasks[2].command = "parse_project" /\ tasks[2].returned # None
    /\ tasks[1].returned.some.value.total_errors = 1
    /\ tasks[2].returned.some.value.total_errors = 0
    /\ tasks[2].returned.some.value.total_processed >= 1
    /\ \E i, j, k \in 1..Len(trace) :
          i < j /\ j < k /\ trace[i] = 1 /\ trace[j] = 2 /\ trace[k] = 1

(***************************************************************************)
(* Claims about the outcomes of parse_file (ParseFileSpec).                *)
(***************************************************************************)
HasReply == reply # None /\ Len(files) = 1

DelphiExtensions == {"pas", "dpr", "dpk", "dfm", "fmx"}

DedicatedLaravelTypes ==
    {"Controller", "Model", "BladeView", "Route", "Migration", "InertiaPage"}

\* The file has a kind for which parse_file has no extractor of its own.
NoDedicatedExtractor(p, file) ==
    IF p = "delphi" THEN to_lowercase(file.extension) \notin DelphiExtensions
    ELSE FileTypeOfPath[file.path] \notin DedicatedLaravelTypes

\* What the generic PHP extractor gives for a readable file, with the
\* laravel_type entry parse_file adds.
GenericPhp(file) ==
    [extractor_parse(file, {}).value EXCEPT
        !.metadata = [laravel_type |-> JsonString(FileTypeOfPath[file.path])] @@ @]

\* C20: the only error parse_file returns, for either parser, is the I/O
\* error of a file that cannot be read (never Parse, Config,
\* UnsupportedFile or Cancelled); a file whose kind has no dedicated
\* extractor does not fail for that reason: the Delphi parser answers with
\* an empty ParsedFile without reading the file, the Laravel parser with
\* the result of the generic PHP extractor.
C20_ParseFileErrors ==
    HasReply =>
        /\ ~reply.some.ok =>
              /\ reply.some.error = IoErrorText
              /\ files[1].absolute_path \in unreadable
        /\ (parser = "delphi" /\ NoDedicatedExtractor(parser, files[1])) =>
              reply.some = Ok(ParsedFile_new(files[1]))
        /\ (parser = "laravel" /\ NoDedicatedExtractor(parser, files[1])
               /\ files[1].absolute_path \notin unreadable) =>
              reply.some = Ok(GenericPhp(files[1]))

\* The Delphi parser was given README.txt, which cannot be read, and
\* answered with the empty ParsedFile.
C20_Witness ==
    /\ HasReply
    /\ parser = "delphi"
    /\ files[1].path = "README.txt"
    /\ files[1].absolute_path \in unreadable
    /\ reply.some = Ok(ParsedFile_new(files[1]))

\* The Laravel parser was given a helper class of no Laravel kind and
\* answered with the generic extractor's ParsedFile.
C20_LaravelFallback ==
    /\ HasReply
    /\ parser = "laravel"
    /\ files[1].path = "app/Support/Helper.php"
    /\ reply.some.ok
    /\ reply.some.value.metadata = [laravel_type |-> JsonString("Php")]

\* An unreadable file with a dedicated extractor gave the I/O error.
C20_IoError ==
    /\ HasReply
    /\ ~NoDedicatedExtractor(parser, files[1])
    /\ reply.some = Err(IoErrorText)

(***************************************************************************)
(* Claims about the ParseResult built by the parse_project loop (Spec).    *)
(***************************************************************************)
CountersNeverDecrease ==
    /\ result'.total_processed >= result.total_processed
    /\ result'.total_errors >= result.total_errors

Accounting ==
    /\ result.total_processed = Len(result.files) + result.total_errors
    /\ Len(result.errors) <= result.total_errors

\* C21: along every sequence of add_parsed_file and add_error calls on a
\* ParseResult that starts empty, total_processed and total_errors never
\* decrease, total_processed = files.len() + total_errors, and errors has
\* at most total_errors entries.
C21_ParseResultAccounting == [][CountersNeverDecrease]_vars /\ []Accounting

\* Both calls were made, add_error twice for one path: two errors counted,
\* one entry in errors.
C21_Witness ==
    /\ Len(result.files) >= 1
    /\ result.total_errors = 2
    /\ Len(result.errors) = 1
    /\ result.total_processed = 3

(***************************************************************************)
(* Claims about node sizes (SizeSpec; GraphSpec for graphs of more files). *)
(***************************************************************************)
\* C22: every node of every graph either parser produces, and every node
\* made by UnifiedNode::new and then given a size by with_size, whatever
\* the argument, has a size from 1 to 12.
C22_NodeSizeRange ==
    nodes # None => \A i \in 1..Len(nodes.some) :
                        nodes.some[i].size >= 1 /\ nodes.some[i].size <= 12

\* with_size(255) was called on the last node of a graph: its size is 12.
C22_Witness ==
    /\ nodes # None
    /\ trace = <<255>>
    /\ nodes.some[Len(nodes.some)].size = 12

\* with_size(0) was called on the symbol node of a Laravel controller file:
\* its size is 1, next to the file node of size 8.
C22_WitnessLow ==
    /\ nodes # None
    /\ parser = "laravel"
    /\ trace = <<0>>
    /\ Len(nodes.some) = 2
    /\ nodes.some[1].size = 8
    /\ nodes.some[2].size = 1

(***************************************************************************)
(* Claims about the order of node and edge generation (GraphSpec).         *)
(***************************************************************************)
\* The graph has an edge of the type from the file to a node for which the
\* field has the value.
EdgeToNodeWith(parsed_file, edge_type, field, value) ==
    \E e \in 1..Len(edges.some), n \in 1..Len(nodes.some) :
        /\ edges.some[e].source = generate_id(parsed_file.source.path)
        /\ edges.some[e].edge_type = edge_type
        /\ edges.some[e].target = nodes.some[n].id
        /\ nodes.some[n][field] = value

\* The nodes generated from the file at position b of the ParseResult.
NodesOfFile(b) ==
    {n \in 1..Len(nodes.some) : nodes.some[n].file_path = Some(result.files[b].source.path)}

\* Each use statement and each rendered view of file a that names a node
\* generated from file b is an edge.
ReferencesResolved(a, b) ==
    LET A == result.files[a]
    IN  /\ \A k \in 1..Len(A.dependencies) :
              (\E n \in NodesOfFile(b) :
                  nodes.some[n].name = rsplit_backslash(A.dependencies[k].target))
                  => EdgeToNodeWith(A, "Uses", "name",
                                    rsplit_backslash(A.dependencies[k].target))
        /\ \A k \in 1..Len(array_items(A.metadata, "views_referenced")) :
              LET v == array_items(A.metadata, "views_referenced")[k]
              IN  (\E n \in NodesOfFile(b) :
                      nodes.some[n].qualified_name = "view:" \o str_or_empty(v))
                      => EdgeToNodeWith(A, Custom("renders"), "qualified_name",
                                        "view:" \o str_or_empty(v))

\* C23: build_graph generates the edges from the complete node list: a
\* reference of a Laravel file A to a node generated from a file B is an
\* edge of the graph, whether B is before or after A in ParseResult.files.
C23_NodeIndexBarrier ==
    (HasGraph /\ parser = "laravel")
        => \A a, b \in 1..Len(result.files) : ReferencesResolved(a, b)

\* The controller is the first file, the view it renders the second: the
\* renders edge points forward in the file list.
C23_Witness ==
    /\ HasGraph
    /\ parser = "laravel"
    /\ Len(result.files) = 2
    /\ result.files[1].source.path = "app/Http/Controllers/UserController.php"
    /\ result.files[2].source.path = "resources/views/home.blade.php"
    /\ \E e \in 1..Len(edges.some) :
          /\ edges.some[e].source = generate_id(result.files[1].source.path)
          /\ edges.some[e].target = generate_id(result.files[2].source.path)
          /\ edges.some[e].edge_type = Custom("renders")

\* The same two files in the other order, with the same edge.
C23_WitnessBackward ==
    /\ HasGraph
    /\ parser = "laravel"
    /\ Len(result.files) = 2
    /\ result.files[2].source.path = "app/Http/Controllers/UserController.php"
    /\ result.files[1].source.path = "resources/views/home.blade.php"
    /\ \E e \in 1..Len(edges.some) :
          /\ edges.some[e].source = generate_id(result.files[2].source.path)
          /\ edges.some[e].target = generate_id(result.files[1].source.path)
          /\ edges.some[e].edge_type = Custom("renders")

\* A use statement of the first file names the class declared in the
\* second.
C23_WitnessUse ==
    /\ HasGraph
    /\ parser = "laravel"
    /\ Len(result.files) = 2
    /\ Len(result.files[1].dependencies) = 1
    /\ \E n \in NodesOfFile(2) :
          /\ nodes.some[n].name = rsplit_backslash(result.files[1].dependencies[1].target)
          /\ \E e \in 1..Len(edges.some) :
                /\ edges.some[e].source = generate_id(result.files[1].source.path)
                /\ edges.some[e].target = nodes.some[n].id

(***************************************************************************)
(* Claims about the section flags of Delphi dependencies (UsesSpec).       *)
(***************************************************************************)
\* The offset in the text of the first occurrence of a word, in any case.
FirstOccurrence(text, word) ==
    IF \E i \in 1..Len(text) : text[i].kind = word
    THEN Some(byte_offset(text, CHOOSE i \in 1..Len(text) :
                                    /\ text[i].kind = word
                                    /\ \A j \in 1..(i - 1) : text[j].kind # word,
                          FALSE))
    ELSE None

\* The flags the uses list of piece i has by the stated rule.
StatedInterface(text, i) ==
    /\ FirstOccurrence(text, "interface") # None
    /\ FirstOccurrence(text, "interface").some < match_start(text, i)
    /\ FirstOccurrence(text, "implementation") # None
          => FirstOccurrence(text, "implementation").some > match_start(text, i)

StatedImplementation(text, i) ==
    /\ FirstOccurrence(text, "implementation") # None
    /\ FirstOccurrence(text, "implementation").some < match_start(text, i)

StatedDependencies(text) ==
    Flatten([i \in 1..Len(text) |->
        IF text[i].kind = "uses"
        THEN uses_items(text[i].items, 1, StatedInterface(text, i),
                        StatedImplementation(text, i))
        ELSE <<>>])

NeverBothSections ==
    \A k \in 1..Len(parsed.some.dependencies) :
        ~(parsed.some.dependencies[k].is_interface
            /\ parsed.some.dependencies[k].is_implementation)

\* C24: a dependency from a uses list at offset p of the text has
\* is_interface exactly when the first "interface" of the text is before p
\* and the first "implementation", if there is one, after p; it has
\* is_implementation exactly when the first "implementation" is before p;
\* no dependency has both flags.
C24_UsesScoping ==
    parsed # None =>
        /\ parsed.some.dependencies = StatedDependencies(source_text)
        /\ NeverBothSections

\* Lower-casing changes the length of no letter of the text.
SameLengthLowercase ==
    \A i \in 1..Len(source_text) : source_text[i].bytes = source_text[i].lower_bytes

\* The statement for texts whose letters keep their length in lower case,
\* and the exclusion of the two flags for every text.
C24_SameLengthScoping ==
    parsed # None =>
        /\ SameLengthLowercase => parsed.some.dependencies = StatedDependencies(source_text)
        /\ NeverBothSections

\* A unit with a uses list in the interface section and one in the
\* implementation section, and no letter that changes its length.
C24_BothSections ==
    /\ parsed # None
    /\ SameLengthLowercase
    /\ \E j, k \in 1..Len(parsed.some.dependencies) :
          /\ parsed.some.dependencies[j].is_interface
          /\ ~parsed.some.dependencies[j].is_implementation
          /\ parsed.some.dependencies[k].is_implementation
          /\ ~parsed.some.dependencies[k].is_interface

\* A comment of twenty letters U+0130, then the interface section with a
\* uses list: the dependency is not flagged as an interface dependency.
C24_LongerInLowercase ==
    /\ parsed # None
    /\ source_text = <<Comment(20, 2, 3), InterfaceWord, UsesClause(<<"SysUtils">>)>>
    /\ parsed.some.dependencies =
          <<Dependency_in_section("SysUtils", FALSE, FALSE)>>

(***************************************************************************)
(* Claims about the endpoints of Delphi edges (GraphSpec).                 *)
(***************************************************************************)
\* The dependencies are names extract_uses accepts, and the files have a
\* dot in their relative path, as the files scan_files returns have.
ExtractedFromScannedFiles ==
    \A i \in 1..Len(result.files) :
        /\ contains(result.files[i].source.path, ".")
        /\ \A k \in 1..Len(result.files[i].dependencies) :
              is_unit_name(result.files[i].dependencies[k].target)

IsNodeId(id) == \E n \in 1..Len(nodes.some) : nodes.some[n].id = id

RefinedOnly(parsed_file) ==
    /\ FileTypeOfPath[parsed_file.source.path] = "Php"
    /\ laravel_file_type(parsed_file) \in {"Model", "Controller"}

RelationshipEdgeTypes ==
    {Custom("has_many"), Custom("has_one"), Custom("belongs_to"),
     Custom("belongs_to_many"), Custom("morph"), Custom("renders")}

\* C26: parse_file picks the extractor by the path-based kind alone: a file
\* that is a Model or a Controller only through refinement was parsed by
\* the generic PHP extractor, has no relationships, views_referenced or
\* inertia_pages metadata, and is the source of no relationship edge and
\* of no renders edge.
C26_RefinedFilesUnextracted ==
    HasGraph =>
        \A i \in 1..Len(result.files) :
            RefinedOnly(result.files[i]) =>
                /\ "laravel_type" \in DOMAIN result.files[i].metadata
                /\ result.files[i].metadata["laravel_type"] = JsonString("Php")
                /\ DOMAIN result.files[i].metadata
                      \cap {"relationships", "views_referenced", "inertia_pages"} = {}
                /\ \A e \in 1..Len(edges.some) :
                      edges.some[e].source = generate_id(result.files[i].source.path)
                          => edges.some[e].edge_type \notin RelationshipEdgeTypes

\* User (app/Models) and Post (app/Domain) are both Model nodes and each
\* declares a relationship to the other: the graph has the has_many edge
\* from User.php and no belongs_to edge from Post.php.
C26_Witness ==
    /\ HasGraph
    /\ Len(result.files) = 2
    /\ result.files[1].source.path = "app/Models/User.php"
    /\ result.files[2].source.path = "app/Domain/Post.php"
    /\ RefinedOnly(result.files[2])
    /\ \A n \in {1, 3} : nodes.some[n].node_type = "Model"
    /\ \E e \in 1..Len(edges.some) :
          /\ edges.some[e].source = generate_id("app/Models/User.php")
          /\ edges.some[e].edge_type = Custom("has_many")
    /\ \A e \in 1..Len(edges.some) :
          edges.some[e].source = generate_id("app/Domain/Post.php")
              => edges.some[e].edge_type = "Uses"

\* The controller outside app/Http/Controllers calls view('home'), like the
\* one inside: only the one inside has a renders edge to the view.
C26_WitnessController ==
    /\ HasGraph
    /\ Len(result.files) = 2
    /\ result.files[1].source.path = "resources/views/home.blade.php"
    /\ result.files[2].source.path = "app/Admin/Dashboard.php"
    /\ RefinedOnly(result.files[2])
    /\ nodes.some[2].node_type = "Controller"
    /\ edges.some = <<>>

C26_WitnessPlacedController ==
    /\ HasGraph
    /\ Len(result.files) = 2
    /\ result.files[1].source.path = "resources/views/home.blade.php"
    /\ result.files[2].source.path = "app/Http/Controllers/UserController.php"
    /\ \E e \in 1..Len(edges.some) :
          /\ edges.some[e].source = generate_id("app/Http/Controllers/UserController.php")
          /\ edges.some[e].target = generate_id("resources/views/home.blade.php")
          /\ edges.some[e].edge_type = Custom("renders")

(***************************************************************************)
(* Claims about node ids within one graph (GraphSpec).                     *)
(***************************************************************************)
\* The symbol types a parser makes nodes of.
NodeSymbolTypes(p) ==
    IF p = "delphi" THEN DelphiNodeSymbolTypes ELSE LaravelNodeSymbolTypes

\* What the nodes of symbols[i..] of a file are generated from: the
\* relative path and the symbol name, one entry per qualifying symbol.
RECURSIVE SymbolOrigins(_, _, _)
SymbolOrigins(p, parsed_file, i) ==
    IF i > Len(parsed_file.symbols) THEN <<>>
    ELSE (IF parsed_file.symbols[i].symbol_type \in NodeSymbolTypes(p)
          THEN <<<<parsed_file.source.path, parsed_file.symbols[i].name>>>>
          ELSE <<>>)
            \o SymbolOrigins(p, parsed_file, i + 1)

\* What the nodes of a ParseResult are generated from, in generation
\* order: for each file its relative path, then its qualifying symbols.
NodeOrigins(p, parse_result) ==
    Flatten([i \in 1..Len(parse_result.files) |->
               <<<<parse_result.files[i].source.path>>>>
                  \o SymbolOrigins(p, parse_result.files[i], 1)])

C27_WitnessDistinct ==
    /\ HasGraph
    /\ Len(nodes.some) = 4
    /\ nodes.some[2].name = nodes.some[4].name
    /\ nodes.some[1].file_path # nodes.some[3].file_path
    /\ Cardinality({nodes.some[i].id : i \in 1..4}) = 4

(***************************************************************************)
(* Claims about Laravel name resolution (GraphSpec).                       *)
(***************************************************************************)
\* The types of the edges generate_edges makes by a lookup in node_by_name:
\* use statements, relationships and routes.
NameResolvedEdgeTypes ==
    {"Uses", Custom("routes_to"), Custom("has_many"), Custom("has_one"),
     Custom("belongs_to"), Custom("belongs_to_many"), Custom("morph")}

\* Whether nodes[i] is the last node of the list with its short name.
LastOfItsName(node_list, i) ==
    \A j \in (i + 1)..Len(node_list) : node_list[j].name # node_list[i].name

\* Whether some edge of the given source and type ends at the last node of
\* the list whose short name is the given one.
EdgeToLastNamed(source_id, edge_type, short_name) ==
    \E e \in 1..Len(edges.some), i \in 1..Len(nodes.some) :
        /\ nodes.some[i].name = short_name
        /\ LastOfItsName(nodes.some, i)
        /\ edges.some[e].source = source_id
        /\ edges.some[e].edge_type = edge_type
        /\ edges.some[e].target = nodes.some[i].id

IsFileNodeIdOf(id, extensions) ==
    \E i \in 1..Len(nodes.some) :
        /\ IsFileNode(nodes.some[i])
        /\ nodes.some[i].id = id
        /\ \E f \in 1..Len(result.files) :
              /\ result.files[f].source.path = nodes.some[i].file_path.some
              /\ to_lowercase(result.files[f].source.extension) \in extensions

DelphiScanExtensions == {"pas", "dfm", "fmx", "dpr", "dpk"}

\* C29: in a graph of the Delphi parser the source of every edge is the id
\* of a file node of the graph, a FilePair edge goes from the file node of a
\* .pas file to the file node of a .dfm or .fmx file, and an edge whose
\* target is the id of no node is a Uses edge.
C29_DelphiEdgeEndpoints ==
    (HasGraph /\ parser = "delphi") =>
        \A e \in 1..Len(edges.some) :
            /\ IsFileNodeIdOf(edges.some[e].source, DelphiScanExtensions)
            /\ edges.some[e].edge_type = "FilePair"
                  => /\ IsFileNodeIdOf(edges.some[e].source, {"pas"})
                     /\ IsFileNodeIdOf(edges.some[e].target, {"dfm", "fmx"})
            /\ ~IsNodeId(edges.some[e].target) => edges.some[e].edge_type = "Uses"

\* A graph with a FilePair edge and a Uses edge to a unit that is no node.
C29_Witness ==
    /\ HasGraph
    /\ parser = "delphi"
    /\ \E e, u \in 1..Len(edges.some) :
          /\ edges.some[e].edge_type = "FilePair"
          /\ edges.some[u].edge_type = "Uses"
          /\ ~IsNodeId(edges.some[u].target)

(***************************************************************************)
(* Claims about Delphi file pairing (PairSpec).                            *)
(***************************************************************************)
\* Whether files[a] is a unit and files[b] a form of the same file-name
\* stem, ASCII case ignored.
UnitAndForm(a, b) ==
    /\ eq_ignore_ascii_case(files[a].extension, "pas")
    /\ \/ eq_ignore_ascii_case(files[b].extension, "dfm")
       \/ eq_ignore_ascii_case(files[b].extension, "fmx")
    /\ eq_ignore_ascii_case(file_stem(files[a].name), file_stem(files[b].name))

\* The positions of the pair (p, f) in what the call returned.
PositionsOf(p, f) ==
    {k \in 1..Len(reply.some.pairs) : reply.some.pairs[k] = <<p, f>>}

\* The combinations of a unit at path p and a form at path f in the input.
CombinationsOf(p, f) ==
    {c \in (1..Len(files)) \X (1..Len(files)) :
        /\ files[c[1]].path = p
        /\ files[c[2]].path = f
        /\ UnitAndForm(c[1], c[2])}

PairsReturned == reply # None /\ reply.some.call = "detect_file_pairs"

\* C30: what DelphiParser.detect_file_pairs returns holds the pair (path of
\* the .pas file, path of the form file) once for every combination of a
\* .pas file and a .dfm or .fmx file of the input whose file-name stems are
\* equal ignoring ASCII case, wherever the two files are, and nothing else.
C30_PairingByFileName ==
    (PairsReturned /\ parser = "delphi") =>
        /\ \A a, b \in 1..Len(files) :
              Cardinality(PositionsOf(files[a].path, files[b].path))
                 = Cardinality(CombinationsOf(files[a].path, files[b].path))
        /\ \A k \in 1..Len(reply.some.pairs) :
              \E a, b \in 1..Len(files) :
                  reply.some.pairs[k] = <<files[a].path, files[b].path>>

\* A unit with a .dfm in one directory and a .fmx in another: two pairs.
C30_Witness ==
    /\ PairsReturned
    /\ parser = "delphi"
    /\ files = <<create_source_file("Main.pas", 1000),
                 create_source_file("forms/Main.dfm", 300),
                 create_source_file("mobile/ui/MAIN.fmx", 300)>>
    /\ reply.some.pairs = <<<<"Main.pas", "forms/Main.dfm">>,
                            <<"Main.pas", "mobile/ui/MAIN.fmx">>>>

\* Two units of one stem and a form: the form is in a pair with each.
C30_WitnessTwoUnits ==
    /\ PairsReturned
    /\ parser = "delphi"
    /\ Len(files) = 3
    /\ Len(reply.some.pairs) = 2
    /\ reply.some.pairs[1][1] # reply.some.pairs[2][1]
    /\ reply.some.pairs[1][2] = reply.some.pairs[2][2]

====
